---- MODULE Spec2Model ----
(***************************************************************************)
(* Authentication and session-security subsystem of the blog API:          *)
(* login with layered rate limiting, refresh, logout, password change,     *)
(* password reset and account deletion, over the credential store          *)
(* (PostgreSQL) and the session cache (Redis).                             *)
(*                                                                         *)
(* An Option<T> of the source is a set with at most one element: {} is     *)
(* None and {x} is Some(x).  A Redis key with a TTL is an entry carrying   *)
(* the time at which Redis drops it, itself an Option: a key without TTL   *)
(* is never dropped.                                                       *)
(***************************************************************************)
EXTENDS Integers, Sequences, FiniteSets, TLC

VARIABLES
    now,           \* Utc::now() / the Redis server clock, in seconds
    db,            \* users table: one row per user id
    refreshStore,  \* Redis "refresh:{user_id}"
    ipAttempts,    \* Redis "login_fail_ip:{ip}"
    pairAttempts,  \* Redis "login_fail_identifier_ip:{identifier}_{ip}"
    reqs,          \* requests in flight: each slot's handler position and locals
    clientTokens,  \* tokens that responses have handed to clients
    lastSaved,     \* history: per subject, the token of the save applied last
    revoked,       \* history: per subject, the operations completed since its last save
    failLog,       \* history: per pair, the times of the failed logins
    ipFailLog,     \* history: per address, the times of the failed logins
    nextUuid,      \* the verification tokens (uuid::Uuid::new_v4) handed out so far
    last           \* the response of the request that completed last

vars == <<now, db, refreshStore, ipAttempts, pairAttempts, reqs, clientTokens,
          lastSaved, revoked, failLog, ipFailLog, nextUuid, last>>

----------------------------------------------------------------------------
(* Bounds of the model *)

\* steps the clock takes in the session and account specifications
MaxTicks == 1
\* verification tokens the model hands out
MaxUuid == 1

(* Program constants *)

IpCap == 100
PairCap == 10
IpTtl == 86400
PairTtl == 3600
Leeway == 60
ResetTtl == 1800
MinPasswordLen == 6
MAX_PASSWORD_LENGTH == 64

\* env.jwt_maxage and env.refresh_token_maxage: deployment configuration
JwtMaxAge == 15
RefreshMaxAge == 30

----------------------------------------------------------------------------
(* The universe of the model *)

Users == {"u1", "u2"}
Ips == {"ip1", "ip2"}
Procs == {"r1", "r2"}

\* plaintext passwords with their lengths (validation and hashing read the length)
Passwords == {"secret1", "secret2", "wrong12", "short", "toolong"}
PwLen(p) == IF p = "short" THEN 5 ELSE IF p = "toolong" THEN 65 ELSE 7

\* identifiers a client may type; HasAt is identifier.contains('@')
Identifiers == {"alice", "alice@x.io", "bob", "nobody"}
HasAt(id) == id = "alice@x.io"

UsernameOf(u) == IF u = "u1" THEN "alice" ELSE "bob"
EmailOf(u) == IF u = "u1" THEN "alice@x.io" ELSE "bob@x.io"

\* models.rs UserRole; no route changes a role, so a user's role is fixed
UserRole == {"admin", "user"}
RoleOf(u) == IF u = "u1" THEN "admin" ELSE "user"

Statuses == {200, 204, 400, 401, 404, 500}

----------------------------------------------------------------------------
(* Option and Result helpers *)

TheOne(S) == CHOOSE x \in S : TRUE
\* Option::unwrap_or(0)
unwrap_or_0(opt) == IF opt = {} THEN 0 ELSE TheOne(opt)

----------------------------------------------------------------------------
(* utils/token.rs *)

\* A JWT is its claims and the key its signature was made with.  Header and
\* encoding are fixed, so equal claims under the same key give the same string.
MkToken(sub, iat, exp) == [sub |-> sub, iat |-> iat, exp |-> exp, sig |-> "hs256"]

\* Ok(token) is {token}; the only Err is an empty subject
create_token(data, expires_in_seconds) ==
    IF data = "" THEN {} ELSE {MkToken(data, now, now + expires_in_seconds)}

\* the signature and the expiry as jsonwebtoken's Validation::new checks them:
\* every failure is the same InvalidToken (401); Ok(sub) is {sub}
decode_token(token) ==
    IF token.sig = "hs256" /\ token.exp >= now - Leeway THEN {token.sub} ELSE {}

\* tokens signed with a key that is not the server's
Forged == {[sub |-> u, iat |-> 0, exp |-> 1000000, sig |-> "forged"] : u \in Users}

\* a string that is not three base64 parts
Malformed == {[sub |-> "", iat |-> 0, exp |-> 0, sig |-> "malformed"]}

\* jsonwebtoken's decode, lines 219-223: the structure, then the signature,
\* then the expiry; the kind of its error, or "Ok"
decode(token) ==
    IF token.sig = "malformed" THEN "InvalidToken"
    ELSE IF token.sig /= "hs256" THEN "InvalidSignature"
    ELSE IF token.exp < now - Leeway THEN "ExpiredSignature"
    ELSE "Ok"

\* error.rs HttpError::new
HttpError_new(message, status) == [status |-> status, message |-> message]

\* faulty variant: the error says which check failed
decode_token_Err_Kind(token) ==
    IF decode(token) = "Ok" THEN {} ELSE {HttpError_new(decode(token), 401)}

\* lines 228-234: the Err of decode_token, whatever decode's error was
decode_token_Err(token) ==
    IF decode(token) = "Ok" THEN {} ELSE {HttpError_new("InvalidToken", 401)}

\* A verification token is a fresh UUID, followed by '+' and the new address
\* when it confirms a change of email; `email` is "" when there is no '+'.
VToken(uuid, email) == [uuid |-> uuid, email |-> email]

----------------------------------------------------------------------------
(* utils/password.rs *)

hash(password) ==
    IF PwLen(password) = 0 \/ PwLen(password) > MAX_PASSWORD_LENGTH
    THEN {} ELSE {<<"argon2", password>>}

\* "err" | "match" | "mismatch"
compare(password, hashed_password) ==
    IF PwLen(password) = 0 \/ PwLen(password) > MAX_PASSWORD_LENGTH THEN "err"
    ELSE IF hashed_password = <<"argon2", password>> THEN "match" ELSE "mismatch"

\* LoginUserDto::validate: identifier of length >= 1, password of length >= 6
LoginUserDto_validate(identifier, password) ==
    identifier /= "" /\ PwLen(password) >= MinPasswordLen

----------------------------------------------------------------------------
(* redisdb.rs *)

\* faulty variant: SET with NX, which leaves a key that exists as it is
save_refresh_token_IfAbsent(user_id, refresh_token, expires_in_seconds) ==
    IF refreshStore[user_id] /= {} THEN refreshStore
    ELSE [refreshStore EXCEPT
            ![user_id] = {[token |-> refresh_token, exp |-> {now + expires_in_seconds}]}]

\* SETEX: the value and its expiry replace whatever the key held
save_refresh_token(user_id, refresh_token, expires_in_seconds) ==
    [refreshStore EXCEPT
        ![user_id] = {[token |-> refresh_token, exp |-> {now + expires_in_seconds}]}]

get_refresh_token(user_id) == {e.token : e \in refreshStore[user_id]}

\* faulty variant: the DEL goes to a key that is not the user's
delete_refresh_token_OtherKey(user_id) == refreshStore

delete_refresh_token(user_id) == [refreshStore EXCEPT ![user_id] = {}]

\* faulty variant: the GET goes to a key that no failure counts on
get_ip_attempts_OtherKey(ip) == {}

get_ip_attempts(ip) == {e.n : e \in ipAttempts[ip]}

\* faulty variant: the GET goes to a key that no failure counts on
get_identifier_ip_attempts_OtherKey(ip, identifier) == {}

get_identifier_ip_attempts(ip, identifier) ==
    {e.n : e \in pairAttempts[<<identifier, ip>>]}

\* faulty variant: the DEL takes every pair counter of the address
delete_identifier_ip_attempts_AllOfIp(ip, identifier) ==
    [pr \in DOMAIN pairAttempts |-> IF pr[2] = ip THEN {} ELSE pairAttempts[pr]]

delete_identifier_ip_attempts(ip, identifier) ==
    [pairAttempts EXCEPT ![<<identifier, ip>>] = {}]

\* INCR: an absent key counts from 0 and is created without a TTL; a key
\* that exists keeps the TTL it has
INCR(entry) ==
    IF entry = {} THEN {[n |-> 1, exp |-> {}]}
    ELSE {[e EXCEPT !.n = @ + 1] : e \in entry}

\* faulty variant: EXPIRE with NX, which leaves a TTL that is set as it is
EXPIRE_NX(entry, ttl) ==
    {[e EXCEPT !.exp = IF e.exp = {} THEN {now + ttl} ELSE e.exp] : e \in entry}

\* faulty variant: PERSIST in place of EXPIRE, the key never runs out
EXPIRE_Persist(entry, ttl) == {[e EXCEPT !.exp = {}] : e \in entry}

\* EXPIRE: the TTL of the key starts again
EXPIRE(entry, ttl) == {[e EXCEPT !.exp = {now + ttl}] : e \in entry}

\* faulty variant: the batch ends after the address key's two commands
increment_attempts_IpOnly(ip, identifier) ==
    [ip   |-> [ipAttempts EXCEPT ![ip] = EXPIRE(INCR(ipAttempts[ip]), IpTtl)],
     pair |-> pairAttempts]

\* MULTI/EXEC pipeline of four commands: both keys change in one step of the
\* server, and no other command runs in between
increment_attempts(ip, identifier) ==
    [ip   |-> [ipAttempts EXCEPT ![ip] = EXPIRE(INCR(ipAttempts[ip]), IpTtl)],
     pair |-> [pairAttempts EXCEPT
                 ![<<identifier, ip>>] =
                     EXPIRE(INCR(pairAttempts[<<identifier, ip>>]), PairTtl)]]

\* Redis drops a key when its TTL has run out
Unexpired(store, t) ==
    [k \in DOMAIN store |-> {e \in store[k] : \A x \in e.exp : x > t}]

----------------------------------------------------------------------------
(* db/user.rs *)

Row(u) == [id |-> u, username |-> UsernameOf(u), email |-> db[u].email,
           password |-> db[u].password, verified |-> db[u].verified,
           verification_token |-> db[u].vtoken, token_expires_at |-> db[u].vexp,
           role |-> RoleOf(u)]

\* the first argument that is Some decides the query; Ok(Some(row)) is {row}
get_user(user_id, username, email, token) ==
    LET match ==
          IF user_id /= {} THEN {u \in Users : u = TheOne(user_id)}
          ELSE IF username /= {} THEN {u \in Users : UsernameOf(u) = TheOne(username)}
          ELSE IF email /= {} THEN {u \in Users : db[u].email = TheOne(email)}
          ELSE IF token /= {} THEN {u \in Users : db[u].vtoken = token}
          ELSE {}
    IN  {Row(u) : u \in {x \in match : db[x].exists}}

\* a row that is not in the table
NoRow == [exists |-> FALSE, email |-> "", password |-> <<"argon2", "">>,
          verified |-> FALSE, vtoken |-> {}, vexp |-> {}]

\* a row of a verified user, without a pending token
VerifiedRow(email, password) ==
    [exists |-> TRUE, email |-> email, password |-> <<"argon2", password>>,
     verified |-> TRUE, vtoken |-> {}, vexp |-> {}]

update_user_password(user_id, new_password) ==
    [db EXCEPT ![user_id].password = new_password]

\* the update that leaves the token where it is
verifed_token_KeepToken(token) ==
    [u \in Users |->
        IF db[u].exists /\ db[u].vtoken = {token}
        THEN [db[u] EXCEPT !.verified = TRUE]
        ELSE db[u]]

\* UPDATE ... WHERE verification_token = $1
verifed_token(token) ==
    [u \in Users |->
        IF db[u].exists /\ db[u].vtoken = {token}
        THEN [db[u] EXCEPT !.verified = TRUE, !.vtoken = {}, !.vexp = {}]
        ELSE db[u]]

\* faulty variant: the token is stored and the expiry is left as it was
add_verifed_token_TokenOnly(user_id, token, expires_at) ==
    [db EXCEPT ![user_id].vtoken = {token}]

add_verifed_token(user_id, token, expires_at) ==
    [db EXCEPT ![user_id].vtoken = {token}, ![user_id].vexp = {expires_at}]

delete_user(user_id) ==
    [db EXCEPT ![user_id] = NoRow]

----------------------------------------------------------------------------
(* History logs: a log maps a time to the number of events at that time *)

EmptyLog == [t \in {} |-> 0]
LogAdd(log, t) ==
    IF t \in DOMAIN log THEN [log EXCEPT ![t] = @ + 1] ELSE log @@ (t :> 1)

RECURSIVE LogSum(_, _)
LogSum(log, times) ==
    IF times = {} THEN 0
    ELSE LET t == TheOne(times) IN log[t] + LogSum(log, times \ {t})

\* the events of the log later than time `since`
LogCountSince(log, since) == LogSum(log, {t \in DOMAIN log : t > since})

----------------------------------------------------------------------------
(* State *)

Pairs == Identifiers \X Ips

Idle == [pc |-> "idle", ip |-> "", identifier |-> "", password |-> "",
         user |-> {}, access |-> {}, refresh |-> {}, token |-> {}]

Ops == {"password", "logout", "reset", "delete"}

\* a response: the handler, the status and the step that produced it; a login
\* response also carries the request it answers
Respond(op, status, stage) ==
    [op |-> op, status |-> status, stage |-> stage, input |-> <<>>, message |-> ""]

\* error.rs: what the client sees of an HttpError is its status and message
server_error(message) == [status |-> 500, message |-> message]
unauthorized(message) == [status |-> 401, message |-> message]
bad_request(message) == [status |-> 400, message |-> message]

LoginRespond(r, status, stage) ==
    [Respond("login", status, stage) EXCEPT
        !.input = <<r.ip, r.identifier, r.password>>]

\* the response of a login that returned Err(err) at `stage`
LoginFailed(r, stage, err) ==
    [LoginRespond(r, err.status, stage) EXCEPT !.message = err.message]

Init ==
    /\ now = 0
    /\ db = [u \in Users |->
               VerifiedRow(EmailOf(u), IF u = "u1" THEN "secret1" ELSE "secret2")]
    /\ refreshStore = [u \in Users |-> {}]
    /\ ipAttempts = [i \in Ips |-> {}]
    /\ pairAttempts = [pr \in Pairs |-> {}]
    /\ reqs = [p \in Procs |-> Idle]
    /\ clientTokens = {}
    /\ lastSaved = [u \in Users |-> {}]
    /\ revoked = [u \in Users |-> {}]
    /\ failLog = [pr \in Pairs |-> EmptyLog]
    /\ ipFailLog = [i \in Ips |-> EmptyLog]
    /\ nextUuid = 0
    /\ last = Respond("none", 200, "")

\* operation `op` on a user has completed
Completed(op, user_id) == [revoked EXCEPT ![user_id] = @ \cup {op}]

----------------------------------------------------------------------------
(* handler/auth.rs: login *)

LoginPcs == {"pair", "auth", "save", "clear", "fail"}

InFlight(ip) == Cardinality({q \in Procs : reqs[q].pc \in LoginPcs /\ reqs[q].ip = ip})

\* lines 135-148: the address cap.  No login starts once the failures counted
\* for the address, with the logins in flight, are `cap`: the failures a
\* specification explores.
LoginStart(p, ip, identifier, password, cap) ==
    /\ reqs[p].pc = "idle"
    /\ \A e \in ipAttempts[ip] : e.n + InFlight(ip) < cap
    /\ InFlight(ip) < cap
    /\ IF unwrap_or_0(get_ip_attempts(ip)) >= IpCap
       THEN /\ last' = LoginFailed([ip |-> ip, identifier |-> identifier,
                                     password |-> password], "ip",
                                    server_error("Login failed"))
            /\ UNCHANGED reqs
       ELSE /\ reqs' = [reqs EXCEPT ![p] = [Idle EXCEPT !.pc = "pair", !.ip = ip,
                                              !.identifier = identifier,
                                              !.password = password]]
            /\ UNCHANGED last
    /\ UNCHANGED <<nextUuid, now, db, refreshStore, ipAttempts, pairAttempts, clientTokens,
                   lastSaved, revoked, failLog, ipFailLog>>

\* faulty variant: the pair cap answers with an error of its own
LoginCheckPair_TooMany(p) ==
    /\ reqs[p].pc = "pair"
    /\ IF unwrap_or_0(get_identifier_ip_attempts(reqs[p].ip, reqs[p].identifier)) >= PairCap
       THEN /\ last' = LoginFailed(reqs[p], "pair", bad_request("Too many attempts"))
            /\ reqs' = [reqs EXCEPT ![p] = Idle]
       ELSE /\ reqs' = [reqs EXCEPT ![p].pc = "auth"]
            /\ UNCHANGED last
    /\ UNCHANGED <<nextUuid, now, db, refreshStore, ipAttempts, pairAttempts, clientTokens,
                   lastSaved, revoked, failLog, ipFailLog>>

\* faulty variant: a login rejected at the pair cap is counted as a failure
LoginCheckPair_Counted(p) ==
    /\ reqs[p].pc = "pair"
    /\ IF unwrap_or_0(get_identifier_ip_attempts(reqs[p].ip, reqs[p].identifier)) >= PairCap
       THEN /\ last' = LoginFailed(reqs[p], "pair", server_error("Login failed"))
            /\ reqs' = [reqs EXCEPT ![p] = Idle]
            /\ LET r == increment_attempts(reqs[p].ip, reqs[p].identifier)
               IN  /\ ipAttempts' = r.ip
                   /\ pairAttempts' = r.pair
       ELSE /\ reqs' = [reqs EXCEPT ![p].pc = "auth"]
            /\ UNCHANGED <<last, ipAttempts, pairAttempts>>
    /\ UNCHANGED <<nextUuid, now, db, refreshStore, clientTokens,
                   lastSaved, revoked, failLog, ipFailLog>>

\* lines 150-164: the pair cap
LoginCheckPair(p) ==
    /\ reqs[p].pc = "pair"
    /\ IF unwrap_or_0(get_identifier_ip_attempts(reqs[p].ip, reqs[p].identifier)) >= PairCap
       THEN /\ last' = LoginFailed(reqs[p], "pair", server_error("Login failed"))
            /\ reqs' = [reqs EXCEPT ![p] = Idle]
       ELSE /\ reqs' = [reqs EXCEPT ![p].pc = "auth"]
            /\ UNCHANGED last
    /\ UNCHANGED <<nextUuid, now, db, refreshStore, ipAttempts, pairAttempts, clientTokens,
                   lastSaved, revoked, failLog, ipFailLog>>

\* error.rs ErrorMessage::ServerError
ErrorMessage_ServerError == "Server Error. Please try again later"

\* lines 136-144, when the GET of the address counter comes back as an error:
\* map_err and `?` return the server error at once
LoginIpReadFails(p, ip, identifier, password) ==
    /\ reqs[p].pc = "idle"
    /\ last' = LoginFailed([ip |-> ip, identifier |-> identifier,
                            password |-> password], "ipread",
                           server_error(ErrorMessage_ServerError))
    /\ UNCHANGED <<reqs, nextUuid, now, db, refreshStore, ipAttempts, pairAttempts,
                   clientTokens, lastSaved, revoked, failLog, ipFailLog>>

\* faulty variant: a pair counter that cannot be read counts as 0
LoginPairReadFails_Open(p) ==
    /\ reqs[p].pc = "pair"
    /\ reqs' = [reqs EXCEPT ![p].pc = "auth"]
    /\ UNCHANGED <<last, nextUuid, now, db, refreshStore, ipAttempts, pairAttempts,
                   clientTokens, lastSaved, revoked, failLog, ipFailLog>>

\* lines 151-159, when the GET of the pair counter comes back as an error
LoginPairReadFails(p) ==
    /\ reqs[p].pc = "pair"
    /\ last' = LoginFailed(reqs[p], "pairread", server_error(ErrorMessage_ServerError))
    /\ reqs' = [reqs EXCEPT ![p] = Idle]
    /\ UNCHANGED <<nextUuid, now, db, refreshStore, ipAttempts, pairAttempts,
                   clientTokens, lastSaved, revoked, failLog, ipFailLog>>

\* authenticate_process, lines 199-269: validation, lookup, password check and
\* the two tokens.  The result is the slot's next position and locals.
authenticate_process(r) ==
    LET result == IF HasAt(r.identifier)
                  THEN get_user({}, {}, {r.identifier}, {})
                  ELSE get_user({}, {r.identifier}, {}, {})
    IN  IF ~LoginUserDto_validate(r.identifier, r.password) \/ result = {}
        THEN [r EXCEPT !.pc = "fail"]
        ELSE LET user == TheOne(result)
                 access_token == create_token(user.id, JwtMaxAge)
                 refresh_token == create_token(user.id, RefreshMaxAge)
             IN  IF compare(r.password, user.password) = "match"
                    /\ access_token /= {} /\ refresh_token /= {}
                 THEN [r EXCEPT !.pc = "save", !.user = {user.id},
                                !.access = access_token, !.refresh = refresh_token]
                 ELSE [r EXCEPT !.pc = "fail"]

LoginAuthenticate(p) ==
    /\ reqs[p].pc = "auth"
    /\ reqs' = [reqs EXCEPT ![p] = authenticate_process(reqs[p])]
    /\ UNCHANGED <<nextUuid, now, db, refreshStore, ipAttempts, pairAttempts, clientTokens,
                   lastSaved, revoked, failLog, ipFailLog, last>>

\* faulty variant: the access token is what goes into the session cache
LoginSave_AccessToken(p) ==
    /\ reqs[p].pc = "save"
    /\ LET user_id == TheOne(reqs[p].user)
           refresh_token == TheOne(reqs[p].refresh)
       IN  /\ refreshStore' = save_refresh_token(user_id, TheOne(reqs[p].access),
                                                 RefreshMaxAge)
           /\ lastSaved' = [lastSaved EXCEPT ![user_id] = {refresh_token}]
           /\ revoked' = [revoked EXCEPT ![user_id] = {}]
    /\ reqs' = [reqs EXCEPT ![p].pc = "clear"]
    /\ UNCHANGED <<nextUuid, now, db, ipAttempts, pairAttempts, clientTokens, failLog,
                   ipFailLog, last>>

\* authenticate_process, lines 289-301
LoginSave(p) ==
    /\ reqs[p].pc = "save"
    /\ LET user_id == TheOne(reqs[p].user)
           refresh_token == TheOne(reqs[p].refresh)
       IN  /\ refreshStore' = save_refresh_token(user_id, refresh_token, RefreshMaxAge)
           /\ lastSaved' = [lastSaved EXCEPT ![user_id] = {refresh_token}]
           /\ revoked' = [revoked EXCEPT ![user_id] = {}]
    /\ reqs' = [reqs EXCEPT ![p].pc = "clear"]
    /\ UNCHANGED <<nextUuid, now, db, ipAttempts, pairAttempts, clientTokens, failLog,
                   ipFailLog, last>>

\* faulty variant: the error of the SETEX is logged and the login goes on
LoginSaveFails_Ignored(p, applied) ==
    /\ reqs[p].pc = "save"
    /\ reqs' = [reqs EXCEPT ![p].pc = "clear"]
    /\ UNCHANGED <<nextUuid, now, db, refreshStore, lastSaved, revoked, ipAttempts,
                   pairAttempts, clientTokens, failLog, ipFailLog, last>>

\* authenticate_process, lines 289-301, when the SETEX comes back as an error:
\* the map_err makes it Err, and the response with the two tokens is never
\* built.  `applied` is whether the server had run the command before the
\* error (a reply lost on the way) or not.
LoginSaveFails(p, applied) ==
    /\ reqs[p].pc = "save"
    /\ LET user_id == TheOne(reqs[p].user)
           refresh_token == TheOne(reqs[p].refresh)
       IN  IF applied
           THEN /\ refreshStore' = save_refresh_token(user_id, refresh_token, RefreshMaxAge)
                /\ lastSaved' = [lastSaved EXCEPT ![user_id] = {refresh_token}]
                /\ revoked' = [revoked EXCEPT ![user_id] = {}]
           ELSE UNCHANGED <<refreshStore, lastSaved, revoked>>
    /\ reqs' = [reqs EXCEPT ![p] = [@ EXCEPT !.pc = "fail", !.user = {},
                                              !.access = {}, !.refresh = {}]]
    /\ UNCHANGED <<nextUuid, now, db, ipAttempts, pairAttempts, clientTokens, failLog,
                   ipFailLog, last>>

\* faulty variant: a failure is answered without being counted
LoginRecordFailure_NoCount(p) ==
    /\ reqs[p].pc = "fail"
    /\ last' = LoginFailed(reqs[p], "auth", server_error("Login failed"))
    /\ reqs' = [reqs EXCEPT ![p] = Idle]
    /\ UNCHANGED <<nextUuid, now, db, refreshStore, clientTokens, lastSaved,
                   revoked, ipAttempts, pairAttempts, failLog, ipFailLog>>

\* login, lines 168-179: the Ok arm
LoginClear(p) ==
    /\ reqs[p].pc = "clear"
    /\ pairAttempts' = delete_identifier_ip_attempts(reqs[p].ip, reqs[p].identifier)
    /\ failLog' = [failLog EXCEPT ![<<reqs[p].identifier, reqs[p].ip>>] = EmptyLog]
    /\ clientTokens' = clientTokens \cup reqs[p].access \cup reqs[p].refresh
    /\ last' = LoginRespond(reqs[p], 200, "")
    /\ reqs' = [reqs EXCEPT ![p] = Idle]
    /\ UNCHANGED <<nextUuid, now, db, refreshStore, ipAttempts, lastSaved,
                   revoked, ipFailLog>>

\* login, lines 180-190: the Err arm
LoginRecordFailure(p) ==
    /\ reqs[p].pc = "fail"
    /\ LET r == increment_attempts(reqs[p].ip, reqs[p].identifier)
       IN  /\ ipAttempts' = r.ip
           /\ pairAttempts' = r.pair
    /\ failLog' = [failLog EXCEPT ![<<reqs[p].identifier, reqs[p].ip>>] = LogAdd(@, now)]
    /\ ipFailLog' = [ipFailLog EXCEPT ![reqs[p].ip] = LogAdd(@, now)]
    /\ last' = LoginFailed(reqs[p], "auth", server_error("Login failed"))
    /\ reqs' = [reqs EXCEPT ![p] = Idle]
    /\ UNCHANGED <<nextUuid, now, db, refreshStore, clientTokens, lastSaved,
                   revoked>>

----------------------------------------------------------------------------
(* The clock *)

\* d seconds pass; Redis drops the keys whose TTL has run out by then
Advance(d, horizon) ==
    /\ now + d <= horizon
    /\ now' = now + d
    /\ refreshStore' = Unexpired(refreshStore, now')
    /\ ipAttempts' = Unexpired(ipAttempts, now')
    /\ pairAttempts' = Unexpired(pairAttempts, now')
    /\ UNCHANGED <<nextUuid, db, reqs, clientTokens, lastSaved, revoked,
                   failLog, ipFailLog, last>>

----------------------------------------------------------------------------
(* middleware.rs *)

\* faulty variant: the token is accepted only while its subject has a
\* session entry
auth_SessionBound(token) ==
    IF decode_token(token) = {} \/ get_refresh_token(token.sub) = {} THEN {}
    ELSE get_user(decode_token(token), {}, {}, {})

\* auth: the bearer token decodes and its subject is a row of the users table;
\* Ok(user) is {row}, every failure is a 401
auth(token) ==
    IF decode_token(token) = {} THEN {}
    ELSE get_user(decode_token(token), {}, {}, {})

\* what a client can send as a token: anything a response handed out, and
\* tokens made without the server's key
Presentable == clientTokens \cup Forged

----------------------------------------------------------------------------
(* handler/auth.rs: refresh *)

\* faulty variant: a token that verifies is not compared with the stored one
refresh_NoCompare(cookie) ==
    IF cookie = {} \/ decode_token(TheOne(cookie)) = {}
    THEN [status |-> 401, access |-> {}]
    ELSE [status |-> 200,
          access |-> create_token(TheOne(decode_token(TheOne(cookie))), JwtMaxAge)]

\* lines 546-622; cookie is the refresh_token cookie (an Option)
refresh(cookie) ==
    IF cookie = {} THEN [status |-> 401, access |-> {}]
    ELSE LET token == TheOne(cookie)
             token_details == decode_token(token)
         IN  IF token_details = {} THEN [status |-> 401, access |-> {}]
             ELSE LET stored_refresh_token == get_refresh_token(TheOne(token_details))
                      access_token == create_token(TheOne(token_details), JwtMaxAge)
                  IN  IF stored_refresh_token = {} \/ TheOne(stored_refresh_token) /= token
                      THEN [status |-> 500, access |-> {}]
                      ELSE IF access_token = {} THEN [status |-> 500, access |-> {}]
                      ELSE [status |-> 200, access |-> access_token]

\* faulty variant: a refresh token is good for one refresh
Refresh_SingleUse(cookie) ==
    /\ clientTokens' = clientTokens \cup refresh(cookie).access
    /\ last' = Respond("refresh", refresh(cookie).status, "")
    /\ refreshStore' = IF refresh(cookie).status = 200
                       THEN delete_refresh_token(TheOne(cookie).sub)
                       ELSE refreshStore
    /\ UNCHANGED <<now, db, ipAttempts, pairAttempts, reqs, lastSaved,
                   revoked, failLog, ipFailLog, nextUuid>>

Refresh(cookie) ==
    /\ clientTokens' = clientTokens \cup refresh(cookie).access
    /\ last' = Respond("refresh", refresh(cookie).status, "")
    /\ UNCHANGED <<now, db, refreshStore, ipAttempts, pairAttempts, reqs, lastSaved,
                   revoked, failLog, ipFailLog, nextUuid>>

\* faulty variant: every authenticated user passes
role_check_AnyRole(extension, required_roles) ==
    IF extension = {} THEN HttpError_new("UserNotAuthenticated", 401)
    ELSE [status |-> 200, message |-> ""]

\* role_check, lines 141-164; extension is the JWTAuthMiddleware value of the
\* request (an Option); status 200 stands for next.run(req)
role_check(extension, required_roles) ==
    IF extension = {} THEN HttpError_new("UserNotAuthenticated", 401)
    ELSE IF TheOne(extension).role \notin required_roles
         THEN HttpError_new("PermissionDenied", 403)
         ELSE [status |-> 200, message |-> ""]

\* a request to a route behind auth and role_check: the handler runs when
\* both let it through
Protected(token, required_roles) ==
    /\ last' = [(IF auth(token) = {} THEN Respond("route", 401, "auth")
                 ELSE IF role_check(auth(token), required_roles).status /= 200
                 THEN Respond("route", role_check(auth(token), required_roles).status,
                              "role")
                 ELSE Respond("route", 200, "handler"))
                    EXCEPT !.input = <<token, required_roles>>]
    /\ UNCHANGED <<now, db, refreshStore, ipAttempts, pairAttempts, reqs, clientTokens,
                   lastSaved, revoked, failLog, ipFailLog, nextUuid>>

----------------------------------------------------------------------------
(* handler/users.rs: logout, update_user_password, delete_me *)

\* faulty variant: a logout that finds no session entry is an error
Logout_EntryRequired(token) ==
    /\ IF auth(token) = {}
       THEN /\ last' = Respond("logout", 401, "")
            /\ UNCHANGED <<refreshStore, revoked>>
       ELSE LET user == TheOne(auth(token))
            IN  IF get_refresh_token(user.id) = {}
                THEN /\ last' = Respond("logout", 500, "absent")
                     /\ UNCHANGED <<refreshStore, revoked>>
                ELSE /\ refreshStore' = delete_refresh_token(user.id)
                     /\ revoked' = Completed("logout", user.id)
                     /\ last' = Respond("logout", 200, "")
    /\ UNCHANGED <<now, db, ipAttempts, pairAttempts, reqs, clientTokens, lastSaved,
                   failLog, ipFailLog, nextUuid>>

\* lines 383-432, behind the auth middleware; the response's stage tells
\* whether the DEL found the key
Logout(token) ==
    /\ IF auth(token) = {}
       THEN /\ last' = Respond("logout", 401, "")
            /\ UNCHANGED <<refreshStore, revoked>>
       ELSE LET user == TheOne(auth(token))
            IN  /\ refreshStore' = delete_refresh_token(user.id)
                /\ revoked' = Completed("logout", user.id)
                /\ last' = Respond("logout", 200,
                                   IF refreshStore[user.id] = {} THEN "absent" ELSE "")
    /\ UNCHANGED <<now, db, ipAttempts, pairAttempts, reqs, clientTokens, lastSaved,
                   failLog, ipFailLog, nextUuid>>

\* lines 242-298: up to the store update
UpdatePasswordStart(p, token, old_password, new_password) ==
    /\ reqs[p].pc = "idle"
    /\ auth(token) /= {}
    /\ LET user_id == TheOne(auth(token)).id
           result == get_user({user_id}, {}, {}, {})
           valid == PwLen(new_password) >= MinPasswordLen
                      /\ PwLen(old_password) >= MinPasswordLen
       IN  IF ~valid THEN
                /\ last' = Respond("password", 400, "validate")
                /\ UNCHANGED <<db, reqs>>
           ELSE IF result = {} THEN
                /\ last' = Respond("password", 401, "lookup")
                /\ UNCHANGED <<db, reqs>>
           ELSE IF compare(old_password, TheOne(result).password) = "err"
                   \/ hash(new_password) = {} THEN
                /\ last' = Respond("password", 500, "hash")
                /\ UNCHANGED <<db, reqs>>
           ELSE IF compare(old_password, TheOne(result).password) = "mismatch" THEN
                /\ last' = Respond("password", 400, "old")
                /\ UNCHANGED <<db, reqs>>
           ELSE /\ db' = update_user_password(user_id, TheOne(hash(new_password)))
                /\ reqs' = [reqs EXCEPT ![p] = [Idle EXCEPT !.pc = "revoke",
                                                       !.user = {user_id}]]
                /\ UNCHANGED last
    /\ UNCHANGED <<now, refreshStore, ipAttempts, pairAttempts, clientTokens,
                   lastSaved, revoked, failLog, ipFailLog, nextUuid>>

\* lines 299-314: "Force logout everywhere"
UpdatePasswordRevoke(p) ==
    /\ reqs[p].pc = "revoke"
    /\ refreshStore' = delete_refresh_token(TheOne(reqs[p].user))
    /\ revoked' = Completed("password", TheOne(reqs[p].user))
    /\ last' = Respond("password", 200, "")
    /\ reqs' = [reqs EXCEPT ![p] = Idle]
    /\ UNCHANGED <<now, db, ipAttempts, pairAttempts, clientTokens, lastSaved,
                   failLog, ipFailLog, nextUuid>>

\* lines 439-482, behind the auth middleware, whose row it checks the password on
DeleteMe(token, password) ==
    /\ auth(token) /= {}
    /\ LET user == TheOne(auth(token))
       IN  IF PwLen(password) < MinPasswordLen THEN
                /\ last' = Respond("delete", 400, "validate")
                /\ UNCHANGED <<db, revoked>>
           ELSE IF compare(password, user.password) = "err" THEN
                /\ last' = Respond("delete", 500, "hash")
                /\ UNCHANGED <<db, revoked>>
           ELSE IF compare(password, user.password) = "mismatch" THEN
                /\ last' = Respond("delete", 401, "password")
                /\ UNCHANGED <<db, revoked>>
           ELSE /\ db' = delete_user(user.id)
                /\ revoked' = Completed("delete", user.id)
                /\ last' = Respond("delete", 204, "")
    /\ UNCHANGED <<now, refreshStore, ipAttempts, pairAttempts, reqs, clientTokens,
                   lastSaved, failLog, ipFailLog, nextUuid>>

----------------------------------------------------------------------------
(* handler/auth.rs: forgot_password, reset_password *)

\* lines 394-465; `sent` is whether the outbound email went through
ForgotPassword(identifier, sent) ==
    /\ nextUuid < MaxUuid
    /\ LET result == IF HasAt(identifier)
                     THEN get_user({}, {}, {identifier}, {})
                     ELSE get_user({}, {identifier}, {}, {})
       IN  IF result = {} THEN
                /\ last' = Respond("forgot", 400, "lookup")
                /\ UNCHANGED <<db, nextUuid>>
           ELSE /\ nextUuid' = nextUuid + 1
                /\ db' = add_verifed_token(TheOne(result).id, VToken(nextUuid', ""),
                                           now + ResetTtl)
                /\ last' = IF sent THEN Respond("forgot", 200, "")
                            ELSE Respond("forgot", 500, "email")
    /\ UNCHANGED <<now, refreshStore, ipAttempts, pairAttempts, reqs, clientTokens,
                   lastSaved, revoked, failLog, ipFailLog>>

\* faulty variant: only a record without an expiry is refused
token_rejected_AbsentOnly(token_expires_at) == token_expires_at = {}

\* verify_email lines 339-352 and reset_password lines 493-506: the record's
\* expiry (an Option) is in the past, or there is none
token_rejected(token_expires_at) ==
    token_expires_at = {} \/ now > TheOne(token_expires_at)

\* the answer of reset_password to a request made with `token`
ResetRespond(token, status, stage) ==
    [Respond("reset", status, stage) EXCEPT !.input = <<token>>]

\* lines 473-514: the token lookup, its expiry and the new hash
ResetStart(p, token, new_password) ==
    /\ reqs[p].pc = "idle"
    /\ LET result == get_user({}, {}, {}, {token})
       IN  IF PwLen(new_password) < MinPasswordLen THEN
                /\ last' = ResetRespond(token, 400, "validate")
                /\ UNCHANGED reqs
           ELSE IF result = {} THEN
                /\ last' = ResetRespond(token, 400, "lookup")
                /\ UNCHANGED reqs
           ELSE IF token_rejected(TheOne(result).token_expires_at) THEN
                /\ last' = ResetRespond(token, 400, "expired")
                /\ UNCHANGED reqs
           ELSE IF hash(new_password) = {} THEN
                /\ last' = ResetRespond(token, 500, "hash")
                /\ UNCHANGED reqs
           ELSE /\ reqs' = [reqs EXCEPT ![p] = [Idle EXCEPT
                                !.pc = "rsUpdate", !.user = {TheOne(result).id},
                                !.token = {token}, !.password = new_password]]
                /\ UNCHANGED last
    /\ UNCHANGED <<now, db, refreshStore, ipAttempts, pairAttempts, clientTokens,
                   lastSaved, revoked, failLog, ipFailLog, nextUuid>>

\* lines 516-524: UPDATE ... RETURNING with fetch_one fails when the row is gone
ResetUpdate(p) ==
    /\ reqs[p].pc = "rsUpdate"
    /\ IF db[TheOne(reqs[p].user)].exists
       THEN /\ db' = update_user_password(TheOne(reqs[p].user),
                                          TheOne(hash(reqs[p].password)))
            /\ reqs' = [reqs EXCEPT ![p].pc = "rsConsume"]
            /\ UNCHANGED last
       ELSE /\ last' = ResetRespond(TheOne(reqs[p].token), 500, "update")
            /\ reqs' = [reqs EXCEPT ![p] = Idle]
            /\ UNCHANGED db
    /\ UNCHANGED <<now, refreshStore, ipAttempts, pairAttempts, clientTokens,
                   lastSaved, revoked, failLog, ipFailLog, nextUuid>>

\* the success response without "Mark token as used"
ResetConsume_TokenKept(p) ==
    /\ reqs[p].pc = "rsConsume"
    /\ db' = db
    /\ revoked' = Completed("reset", TheOne(reqs[p].user))
    /\ last' = ResetRespond(TheOne(reqs[p].token), 200, "")
    /\ reqs' = [reqs EXCEPT ![p] = Idle]
    /\ UNCHANGED <<now, refreshStore, ipAttempts, pairAttempts, clientTokens,
                   lastSaved, failLog, ipFailLog, nextUuid>>

\* lines 526-541: "Mark token as used", then the success response
ResetConsume(p) ==
    /\ reqs[p].pc = "rsConsume"
    /\ db' = verifed_token(TheOne(reqs[p].token))
    /\ revoked' = Completed("reset", TheOne(reqs[p].user))
    /\ last' = ResetRespond(TheOne(reqs[p].token), 200, "")
    /\ reqs' = [reqs EXCEPT ![p] = Idle]
    /\ UNCHANGED <<now, refreshStore, ipAttempts, pairAttempts, clientTokens,
                   lastSaved, failLog, ipFailLog, nextUuid>>

----------------------------------------------------------------------------
(* The session specification: login, refresh, logout and password change,  *)
(* with few failed logins and a clock that runs past a refresh token's     *)
(* life.                                                                   *)

\* one step of the clock: just past the verifier's leeway
TickSize == Leeway + 1
Horizon == MaxTicks * TickSize

\* failed logins after which no further login starts: one per request slot
SessionFailures == Cardinality(Procs)

\* what clients type at login: the right password and a wrong one
SessionLogins == {<<"alice", "secret1">>, <<"alice", "wrong12">>}
SessionPasswords == {"secret1", "wrong12"}

Next ==
    \/ \E p \in Procs, c \in SessionLogins : LoginStart(p, "ip1", c[1], c[2], SessionFailures)
    \/ \E p \in Procs : LoginCheckPair(p)
    \/ \E p \in Procs : LoginAuthenticate(p)
    \/ \E p \in Procs : LoginSave(p)
    \/ \E p \in Procs : LoginClear(p)
    \/ \E p \in Procs : LoginRecordFailure(p)
    \/ \E t \in Presentable : Refresh({t})
    \/ Refresh({})
    \/ \E t \in Presentable : Logout(t)
    \/ \E p \in Procs, t \in Presentable, old \in SessionPasswords :
          UpdatePasswordStart(p, t, old, "secret2")
    \/ \E p \in Procs : UpdatePasswordRevoke(p)
    \/ Advance(TickSize, Horizon)

Spec == Init /\ [][Next]_vars

----------------------------------------------------------------------------
(* Session properties, checked under Spec *)

\* the refresh tokens handed to a subject's clients
IssuedRefresh(u) ==
    {t \in clientTokens : t.sub = u /\ t.exp - t.iat = RefreshMaxAge}

\* C1: a refresh request succeeds exactly when the presented token verifies
\* (signature and expiry) and the session cache holds, for the token's
\* subject, an entry equal to the presented token; in every state reachable
\* by login, logout, refresh and password change.
C1_RefreshIffVerifiedAndStored ==
    \A t \in Presentable :
        (refresh({t}).status = 200)
            <=> /\ t.sig = "hs256"
                /\ t.exp >= now - Leeway
                /\ \E e \in refreshStore[t.sub] : e.token = t

\* a refresh has just succeeded, one held token is accepted, and another
\* held token verifies and is refused
C1_Witness ==
    /\ last = Respond("refresh", 200, "")
    /\ \E t \in clientTokens : refresh({t}).status = 200
    /\ \E t \in clientTokens : decode_token(t) /= {} /\ refresh({t}).status /= 200

\* C2: per subject at most one token is accepted by refresh, and it is the
\* token of the save applied last: every other token issued to the subject
\* is refused, expired or not, whatever the order the logins ran in.
C2_LastSaveWins ==
    \A u \in Users :
        /\ Cardinality({t \in Presentable : t.sub = u /\ refresh({t}).status = 200}) <= 1
        /\ \A t \in Presentable :
               (t.sub = u /\ refresh({t}).status = 200) => lastSaved[u] = {t}

\* two logins of one subject overlapped: the token created first was saved
\* last, so it is the accepted one and the younger token, unexpired, is refused
C2_Witness ==
    \E a, b \in IssuedRefresh("u1") :
        /\ a.iat < b.iat
        /\ lastSaved["u1"] = {a}
        /\ refresh({a}).status = 200
        /\ decode_token(b) /= {}
        /\ refresh({b}).status /= 200

\* C3: once a logout of a subject has completed, and until a login saves a
\* new entry for that subject, no token of the subject is accepted by refresh.
C3_LogoutRevokes ==
    \A u \in Users :
        "logout" \in revoked[u] =>
            \A t \in Presentable : t.sub = u => refresh({t}).status /= 200

\* the subject logged out while holding a refresh token that still verifies,
\* and the refresh that followed was refused
C3_Witness ==
    /\ "logout" \in revoked["u1"]
    /\ \E t \in IssuedRefresh("u1") : decode_token(t) /= {}
    /\ last.op = "refresh"
    /\ last.status /= 200

\* C4: once a password change of a user has completed, and until a login
\* saves a new entry, a refresh with a token issued to that user is answered
\* 401.
C4_PasswordChangeRefresh401 ==
    \A u \in Users :
        "password" \in revoked[u] =>
            \A t \in IssuedRefresh(u) : refresh({t}).status = 401

\* C8: a refresh whose token verifies while the session entry of its subject
\* is absent or holds another value is answered 401.
C8_MismatchIs401 ==
    \A t \in Presentable :
        (decode_token(t) /= {} /\ get_refresh_token(t.sub) /= {t})
            => refresh({t}).status = 401

----------------------------------------------------------------------------
(* The pair-cap specification: logins of one identifier from one address,  *)
(* with enough failures to reach the pair cap and a clock that runs past   *)
(* the pair counter's TTL.                                                 *)

\* steps the clock takes in the pair-cap specification
RateTicks == 2
\* failures beyond a cap after which no further login starts
RateSlack == 2

PairTick == PairTtl \div 2
PairHorizon == RateTicks * PairTick

\* the clients keep to a wrong password, and try the right one once the pair
\* is one failure from its cap
NearPairCap(ip, identifier) ==
    \E e \in pairAttempts[<<identifier, ip>>] : e.n >= PairCap - 1

PairNext ==
    \/ \E p \in Procs : LoginStart(p, "ip1", "alice", "wrong12", PairCap + RateSlack)
    \/ \E p \in Procs : /\ NearPairCap("ip1", "alice")
                        /\ LoginStart(p, "ip1", "alice", "secret1", PairCap + RateSlack)
    \/ \E p \in Procs : LoginCheckPair(p)
    \/ \E p \in Procs : LoginAuthenticate(p)
    \/ \E p \in Procs : LoginSave(p)
    \/ \E p \in Procs : LoginClear(p)
    \/ \E p \in Procs : LoginRecordFailure(p)
    \/ Advance(PairTick, PairHorizon)

SpecPair == Init /\ [][PairNext]_vars

\* the failed logins of a pair within the last hour, none cleared by a success
RecentPairFailures(identifier, ip) ==
    LogCountSince(failLog[<<identifier, ip>>], now - PairTtl)

\* C5: a login that comes to the pair check when the pair has 10 or more
\* failed logins within the last hour is rejected there: it never reaches
\* the credential lookup or the password check, whatever password it carries.
C5_PairCapRejects ==
    [][\A p \in Procs :
          (/\ reqs[p].pc = "pair"
           /\ RecentPairFailures(reqs[p].identifier, reqs[p].ip) >= PairCap
           /\ reqs'[p] /= reqs[p])
          => /\ reqs'[p] = Idle
             /\ last' = LoginFailed(reqs[p], "pair", server_error("Login failed"))]_vars

\* exactly 10 failures within the hour, and the login that followed, with
\* the right password, was rejected at the pair check
C5_Witness ==
    /\ RecentPairFailures("alice", "ip1") = PairCap
    /\ get_identifier_ip_attempts("ip1", "alice") = {PairCap}
    /\ last = LoginFailed([ip |-> "ip1", identifier |-> "alice",
                           password |-> "secret1"], "pair", server_error("Login failed"))

\* the count a key holds, 0 for an absent key
Count(entry) == unwrap_or_0({e.n : e \in entry})

RECURSIVE PairSum(_, _)
\* the counts of an address's pairs, added up
PairSum(ip, identifiers) ==
    IF identifiers = {} THEN 0
    ELSE LET id == TheOne(identifiers)
         IN  Count(pairAttempts[<<id, ip>>]) + PairSum(ip, identifiers \ {id})

\* C7: recording a failure is one step for every other request: the address
\* counter goes up by one exactly in the steps in which a pair counter of
\* that address goes up by one, both with their TTL started again; so no
\* state has a counter without a TTL, or pairs counting more failures than
\* their address.
C7_RecordFailureAtomic ==
    /\ [](\A ip \in Ips :
            /\ \A e \in ipAttempts[ip] : e.exp /= {}
            /\ \A id \in Identifiers : \A e \in pairAttempts[<<id, ip>>] : e.exp /= {}
            /\ PairSum(ip, Identifiers) <= Count(ipAttempts[ip]))
    /\ [][\A ip \in Ips :
            /\ (Count(ipAttempts'[ip]) = Count(ipAttempts[ip]) + 1)
                 <=> (\E id \in Identifiers :
                        Count(pairAttempts'[<<id, ip>>])
                            = Count(pairAttempts[<<id, ip>>]) + 1)
            /\ (Count(ipAttempts'[ip]) = Count(ipAttempts[ip]) + 1)
                 => /\ \A e \in ipAttempts'[ip] : e.exp = {now + IpTtl}
                    /\ \A id \in Identifiers :
                          (Count(pairAttempts'[<<id, ip>>])
                               = Count(pairAttempts[<<id, ip>>]) + 1)
                          => \A e \in pairAttempts'[<<id, ip>>] :
                                e.exp = {now + PairTtl}]_vars

\* a failure has just been recorded on counters that already counted, while
\* another login of the same pair stands before its pair check
C7_Witness ==
    /\ last.op = "login" /\ last.stage = "auth"
    /\ Count(ipAttempts["ip1"]) >= 2
    /\ Count(pairAttempts[<<"alice", "ip1">>]) >= 2
    /\ \E p \in Procs : reqs[p].pc = "pair" /\ reqs[p].identifier = "alice"

----------------------------------------------------------------------------
(* The address-cap specification: logins from an address that has already  *)
(* failed often, under several identifiers, within the last day.           *)

\* failures the address still has to go to its cap
IpHeadroom == RateSlack + 1

\* the clock runs, in half days, to the end of the window of the failures at 0
IpTick == IpTtl \div 2
IpHorizon == IpTtl

\* the address failed IpCap - IpHeadroom times at time 0, each time under
\* another identifier, so no pair counter of the model has counted
InitIp ==
    /\ now = 0
    /\ db = [u \in Users |->
               VerifiedRow(EmailOf(u), IF u = "u1" THEN "secret1" ELSE "secret2")]
    /\ refreshStore = [u \in Users |-> {}]
    /\ ipAttempts = [i \in Ips |->
                       IF i = "ip1"
                       THEN {[n |-> IpCap - IpHeadroom, exp |-> {IpTtl}]} ELSE {}]
    /\ pairAttempts = [pr \in Pairs |-> {}]
    /\ reqs = [p \in Procs |-> Idle]
    /\ clientTokens = {}
    /\ lastSaved = [u \in Users |-> {}]
    /\ revoked = [u \in Users |-> {}]
    /\ failLog = [pr \in Pairs |-> EmptyLog]
    /\ ipFailLog = [i \in Ips |->
                      IF i = "ip1" THEN (0 :> (IpCap - IpHeadroom)) ELSE EmptyLog]
    /\ nextUuid = 0
    /\ last = Respond("none", 200, "")

\* what clients type from the address: a wrong password, an identifier that
\* is nobody's, and the right password once the address is at its cap
IpLogins == {<<"alice", "wrong12">>, <<"nobody", "secret1">>}

AtIpCap(ip) == \E e \in ipAttempts[ip] : e.n >= IpCap

IpNext ==
    \/ \E p \in Procs, c \in IpLogins :
          LoginStart(p, "ip1", c[1], c[2], IpCap + RateSlack)
    \/ \E p \in Procs : /\ AtIpCap("ip1")
                        /\ LoginStart(p, "ip1", "alice", "secret1", IpCap + RateSlack)
    \/ \E p \in Procs : LoginCheckPair(p)
    \/ \E p \in Procs : LoginAuthenticate(p)
    \/ \E p \in Procs : LoginRecordFailure(p)
    \/ Advance(IpTick, IpHorizon)

SpecIp == InitIp /\ [][IpNext]_vars

\* the failed logins of an address within the last day
RecentIpFailures(ip) == LogCountSince(ipFailLog[ip], now - IpTtl)

\* C6: while the address has 100 or more failed logins within the last 24
\* hours, no login from it passes the address check, whatever identifier
\* and password it carries.
C6_IpCapRejects ==
    [][\A p \in Procs :
          (reqs[p].pc = "idle" /\ reqs'[p].pc \in LoginPcs)
          => RecentIpFailures(reqs'[p].ip) < IpCap]_vars

\* exactly 100 failures within the day, and the login that followed, with
\* the right identifier and password, was rejected at the address check
C6_Witness ==
    /\ RecentIpFailures("ip1") = IpCap
    /\ get_ip_attempts("ip1") = {IpCap}
    /\ last = LoginFailed([ip |-> "ip1", identifier |-> "alice",
                           password |-> "secret1"], "ip", server_error("Login failed"))

----------------------------------------------------------------------------
(* The account specification: login and refresh with password reset and    *)
(* account deletion.                                                       *)

AccountNext ==
    \/ \E p \in Procs : LoginStart(p, "ip1", "alice", "secret1", SessionFailures)
    \/ \E p \in Procs : LoginCheckPair(p)
    \/ \E p \in Procs : LoginAuthenticate(p)
    \/ \E p \in Procs : LoginSave(p)
    \/ \E p \in Procs : LoginClear(p)
    \/ \E p \in Procs : LoginRecordFailure(p)
    \/ \E t \in Presentable : Refresh({t})
    \/ \E sent \in BOOLEAN : ForgotPassword("alice", sent)
    \/ \E p \in Procs, uuid \in 1..MaxUuid : ResetStart(p, VToken(uuid, ""), "secret2")
    \/ \E p \in Procs : ResetUpdate(p)
    \/ \E p \in Procs : ResetConsume(p)
    \/ \E t \in Presentable, password \in SessionPasswords : DeleteMe(t, password)
    \/ Advance(TickSize, Horizon)

SpecAccount == Init /\ [][AccountNext]_vars

\* C9: once a password reset of a user has completed, and until a login
\* saves a new entry, the user has no session entry and no refresh token
\* issued to the user is accepted.
C9_ResetRevokes ==
    \A u \in Users :
        "reset" \in revoked[u] =>
            /\ refreshStore[u] = {}
            /\ \A t \in IssuedRefresh(u) : refresh({t}).status /= 200

\* C10: once delete_me of a user has completed, no session entry of the
\* user is left and no refresh token issued to the user is accepted.
C10_DeleteRevokes ==
    \A u \in Users :
        "delete" \in revoked[u] =>
            /\ get_refresh_token(u) = {}
            /\ \A t \in IssuedRefresh(u) : refresh({t}).status /= 200

----------------------------------------------------------------------------
(* The reset specification: forgot_password and reset_password on their    *)
(* own, with links followed more than once and after their life.           *)

\* the reset links a client can follow
ResetLinks == {VToken(uuid, "") : uuid \in 1..MaxUuid}

\* one step of the clock: a reset link's life, so that two steps outlive it
ResetTick == ResetTtl
ResetHorizon == ResetTtl + ResetTtl

ResetNext ==
    \/ \E identifier \in {"alice", "nobody"}, sent \in BOOLEAN :
          ForgotPassword(identifier, sent)
    \/ \E p \in Procs, t \in ResetLinks, pw \in {"secret1", "secret2", "short"} :
          ResetStart(p, t, pw)
    \/ \E p \in Procs : ResetUpdate(p)
    \/ \E p \in Procs : ResetConsume(p)
    \/ Advance(ResetTick, ResetHorizon)

SpecReset == Init /\ [][ResetNext]_vars

\* the rows holding a reset token
ResetHolders(token) == {u \in Users : db[u].exists /\ db[u].vtoken = {token}}

\* request p's reset_password returns 200 in this step
ResetReturns(p) ==
    /\ reqs[p].pc = "rsConsume"
    /\ reqs'[p].pc = "idle"
    /\ last' = ResetRespond(TheOne(reqs[p].token), 200, "")

\* C17: a password-reset token is single-use.  When reset_password returns
\* success for a token, no row holds the token any more; a token that no row
\* holds is never stored again; and a reset_password started with a token
\* that no row holds fails (400) and changes neither the stored password nor
\* anything else.
C17_ResetTokenSingleUse ==
    [][/\ \A p \in Procs, t \in ResetLinks :
              (reqs[p].token = {t} /\ ResetReturns(p)) => (ResetHolders(t) = {})'
       /\ \A t \in ResetLinks :
              (t.uuid <= nextUuid /\ ResetHolders(t) = {}) => (ResetHolders(t) = {})'
       /\ \A p \in Procs, t \in ResetLinks, pw \in Passwords :
              (t.uuid <= nextUuid /\ ResetHolders(t) = {} /\ ResetStart(p, t, pw))
              => /\ last'.status = 400
                 /\ UNCHANGED <<db, reqs, now, nextUuid, refreshStore>>]_vars

\* the reset went through: the password is the new one, the token is gone,
\* and a later reset with the same token was refused at the lookup
C17_Witness ==
    /\ "reset" \in revoked["u1"]
    /\ db["u1"].password = TheOne(hash("secret2"))
    /\ \E t \in ResetLinks :
          /\ t.uuid <= nextUuid
          /\ ResetHolders(t) = {}
          /\ last = ResetRespond(t, 400, "lookup")
          /\ \A p \in Procs : reqs[p].pc = "idle"

----------------------------------------------------------------------------
(* The login-failure specification: every way a login fails.  Address ip1  *)
(* is close to the address cap, as in InitIp; address ip2 starts without   *)
(* failures and runs one pair into the pair cap.                           *)

\* what clients type from ip1: an identifier that is nobody's, a wrong
\* password, a password too long to hash and one too short to validate
FailingLogins == {<<"nobody", "secret1">>, <<"alice", "wrong12">>,
                  <<"alice", "toolong">>, <<"alice", "short">>}

LoginFailNext ==
    \/ \E p \in Procs, c \in FailingLogins :
          LoginStart(p, "ip1", c[1], c[2], IpCap + RateSlack)
    \/ \E p \in Procs : /\ AtIpCap("ip1")
                        /\ LoginStart(p, "ip1", "alice", "secret1", IpCap + RateSlack)
    \/ \E p \in Procs : LoginStart(p, "ip2", "alice", "wrong12", PairCap + RateSlack)
    \/ \E p \in Procs : /\ NearPairCap("ip2", "alice")
                        /\ LoginStart(p, "ip2", "alice", "secret1", PairCap + RateSlack)
    \/ \E p \in Procs : LoginCheckPair(p)
    \/ \E p \in Procs : LoginAuthenticate(p)
    \/ \E p \in Procs : LoginSave(p)
    \/ \E p \in Procs : LoginClear(p)
    \/ \E p \in Procs : LoginRecordFailure(p)

SpecLoginFail == InitIp /\ [][LoginFailNext]_vars

\* what a client sees of a response
Visible(response) == [status |-> response.status, message |-> response.message]

\* C11: every failed login is answered with the same status and message,
\* whichever step rejected it: the address cap, the pair cap, validation,
\* the lookup, the password check or the hashing.
C11_LoginFailuresAlike ==
    (last.op = "login" /\ last.status /= 200)
        => Visible(last) = [status |-> 500, message |-> "Login failed"]

\* a login with the right password of an existing account was rejected at
\* the pair cap on ip2, after ip1 had logins rejected at the address cap
C11_Witness ==
    /\ last.op = "login" /\ last.stage = "pair"
    /\ last.input = <<"ip2", "alice", "secret1">>
    /\ Count(ipAttempts["ip1"]) >= IpCap
    /\ Count(pairAttempts[<<"nobody", "ip1">>]) >= 1

----------------------------------------------------------------------------
(* Login postcondition, checked under Spec *)

\* the user a login identifier names
UserOf(identifier) ==
    {u \in Users : IF HasAt(identifier) THEN EmailOf(u) = identifier
                   ELSE UsernameOf(u) = identifier}

\* slot p returns its successful login in this step
LoginReturns(p) == reqs[p].pc = "clear" /\ reqs'[p] = Idle

\* C12 as stated: a successful login returns an access token whose subject
\* is the id of the credential record, and when it returns, the session
\* entry of that id holds the refresh token it returns (as long as that
\* token's own lifetime has not run out).
C12_ReturnedTokenIsStored ==
    [][\A p \in Procs : LoginReturns(p) =>
          \A a \in reqs[p].access, t \in reqs[p].refresh :
              /\ {a.sub} = UserOf(reqs[p].identifier)
              /\ now < t.exp => get_refresh_token(a.sub) = {t}]_vars

\* C12, amended: a successful login returns an access token and a refresh
\* token whose subject is the id of the credential record; its save stores
\* the refresh token under that id; and when it returns, the entry holds the
\* returned refresh token unless a later save, a logout or a password change
\* of the same subject came in between, or the token's lifetime ran out.
C12_LoginPostcondition ==
    [][\A p \in Procs :
          /\ (reqs[p].pc = "save" /\ reqs'[p].pc = "clear") =>
                 \A t \in reqs[p].refresh :
                     /\ {t.sub} = UserOf(reqs[p].identifier)
                     /\ refreshStore'[t.sub]
                            = {[token |-> t, exp |-> {now + RefreshMaxAge}]}
          /\ LoginReturns(p) =>
                 \A a \in reqs[p].access, t \in reqs[p].refresh :
                     /\ {a.sub} = UserOf(reqs[p].identifier)
                     /\ {t.sub} = UserOf(reqs[p].identifier)
                     /\ (lastSaved[t.sub] = {t} /\ revoked[t.sub] = {} /\ now < t.exp)
                            => get_refresh_token(t.sub) = {t}]_vars

\* a login with the right password has just returned, and the session entry
\* of the subject holds a refresh token that was handed out
C12_Witness ==
    /\ last = LoginRespond([ip |-> "ip1", identifier |-> "alice",
                            password |-> "secret1"], 200, "")
    /\ \E t \in IssuedRefresh("u1") :
          /\ get_refresh_token("u1") = {t}
          /\ lastSaved["u1"] = {t}
    /\ \E a \in clientTokens : a.sub = "u1" /\ a.exp - a.iat = JwtMaxAge

----------------------------------------------------------------------------
(* The save-fault specification: logins that fail at every step after the  *)
(* rate checks, the write of the session entry included.  The clock        *)
(* stands still, so no entry runs out.                                     *)

\* failed logins after which no further login starts
FaultFailures == RateSlack + 1

FaultLogins == FailingLogins \cup {<<"alice", "secret1">>}

FaultNext ==
    \/ \E p \in Procs, c \in FaultLogins : LoginStart(p, "ip1", c[1], c[2], FaultFailures)
    \/ \E p \in Procs : LoginCheckPair(p)
    \/ \E p \in Procs : LoginAuthenticate(p)
    \/ \E p \in Procs : LoginSave(p)
    \/ \E p \in Procs, applied \in BOOLEAN : LoginSaveFails(p, applied)
    \/ \E p \in Procs : LoginClear(p)
    \/ \E p \in Procs : LoginRecordFailure(p)
    \/ \E t \in Presentable : Refresh({t})

SpecFault == Init /\ [][FaultNext]_vars

\* slot p is past both rate checks
PastRateChecks(p) == reqs[p].pc \in {"auth", "save", "clear", "fail"}

C20_SaveFailureFailsLogin ==
    /\ [](\A t \in clientTokens :
             t.exp - t.iat = RefreshMaxAge => get_refresh_token(t.sub) = {t})
    /\ [][\A p \in Procs :
             /\ (reqs[p].pc = "save" /\ reqs'[p].pc \notin {"save", "clear"})
                   => /\ reqs'[p].pc = "fail"
                      /\ clientTokens' = clientTokens
             /\ (reqs[p].pc = "fail" /\ reqs'[p] /= reqs[p])
                   => /\ last'.status /= 200
                      /\ clientTokens' = clientTokens]_vars

\* the only login so far had the right password, its write of the session
\* entry failed without effect, and it was answered as a failed login: the
\* client holds no token and the cache no entry
C20_Witness ==
    /\ last = LoginFailed([ip |-> "ip1", identifier |-> "alice", password |-> "secret1"],
                          "auth", server_error("Login failed"))
    /\ Count(ipAttempts["ip1"]) = 1
    /\ refreshStore["u1"] = {}
    /\ clientTokens = {}

----------------------------------------------------------------------------
(* The clear specification: a pair runs to its cap, is cleared by a        *)
(* successful login and runs to its cap again, while the same address      *)
(* fails under another identifier.  The clock takes one step of half an    *)
(* hour, once the pair is close to its cap.                                *)

\* failures after which no further login starts: twice the pair cap and more
ClearFailures == PairCap + PairCap + RateSlack

\* another identifier fails from the address, a few times
OtherPairCounts(ip, identifier) ==
    \A e \in pairAttempts[<<identifier, ip>>] : e.n < RateSlack

ClearNext ==
    \/ \E p \in Procs : LoginStart(p, "ip1", "alice", "wrong12", ClearFailures)
    \/ \E p \in Procs : /\ NearPairCap("ip1", "alice")
                        /\ LoginStart(p, "ip1", "alice", "secret1", ClearFailures)
    \/ \E p \in Procs : /\ OtherPairCounts("ip1", "nobody")
                        /\ LoginStart(p, "ip1", "nobody", "secret1", ClearFailures)
    \/ \E p \in Procs : LoginCheckPair(p)
    \/ \E p \in Procs : LoginAuthenticate(p)
    \/ \E p \in Procs : LoginSave(p)
    \/ \E p \in Procs : LoginClear(p)
    \/ \E p \in Procs : LoginRecordFailure(p)
    \/ NearPairCap("ip1", "alice") /\ Advance(PairTick, PairTick)

SpecClear == Init /\ [][ClearNext]_vars

\* the failed logins of a pair since its last successful login
FailuresSinceClear(identifier, ip) ==
    LogSum(failLog[<<identifier, ip>>], DOMAIN failLog[<<identifier, ip>>])

\* C14: the return of a successful login removes the pair counter of the
\* attempt and leaves the address counters, with their TTL, and every other
\* pair counter as they are; and a login is rejected at the pair cap only
\* when its pair has failed 10 times or more since its last successful login.
C14_ClearRemovesOnlyThePair ==
    [][\A p \in Procs :
          /\ LoginReturns(p) =>
                /\ ipAttempts' = ipAttempts
                /\ pairAttempts'[<<reqs[p].identifier, reqs[p].ip>>] = {}
                /\ \A pr \in Pairs : pr /= <<reqs[p].identifier, reqs[p].ip>>
                                        => pairAttempts'[pr] = pairAttempts[pr]
          /\ (reqs[p].pc = "pair" /\ reqs'[p] = Idle) =>
                FailuresSinceClear(reqs[p].identifier, reqs[p].ip) >= PairCap]_vars

\* a successful login has just cleared its pair, half an hour after the
\* failures: the address counter still counts them with the TTL it had, and
\* the counter of the other identifier is there
C14_Witness ==
    /\ last = LoginRespond([ip |-> "ip1", identifier |-> "alice",
                            password |-> "secret1"], 200, "")
    /\ now = PairTick
    /\ pairAttempts[<<"alice", "ip1">>] = {}
    /\ \E e \in ipAttempts["ip1"] : e.n >= PairCap /\ e.exp = {IpTtl}
    /\ Count(pairAttempts[<<"nobody", "ip1">>]) >= 1

\* a pair that was cleared has been blocked again, after 10 further failures
C14_BlockedAgain ==
    /\ last.op = "login" /\ last.stage = "pair"
    /\ Count(pairAttempts[<<"alice", "ip1">>]) = PairCap
    /\ FailuresSinceClear("alice", "ip1") = PairCap
    /\ Count(ipAttempts["ip1"]) >= PairCap + PairCap - 1

----------------------------------------------------------------------------
(* Refresh frame, checked under Spec *)

\* this step is the answer to a refresh request
RefreshAnswers ==
    /\ last'.op = "refresh"
    /\ last' /= last \/ clientTokens' /= clientTokens

\* C15: a refresh, accepted or refused, leaves the session cache as it is:
\* every entry keeps its value and its expiry, so a token that refresh
\* accepts is accepted again by the next refresh.
C15_RefreshLeavesCache ==
    [][RefreshAnswers =>
          /\ refreshStore' = refreshStore
          /\ \A t \in Presentable :
                 refresh({t}).status = 200 => (refresh({t}).status)' = 200]_vars

\* a refresh has just been accepted, and the token it was made with is
\* still the stored one and would be accepted again
C15_Witness ==
    /\ last = Respond("refresh", 200, "")
    /\ \E t \in IssuedRefresh("u1") :
          /\ refreshStore["u1"] = {[token |-> t, exp |-> {t.iat + RefreshMaxAge}]}
          /\ refresh({t}).status = 200
    /\ \E a \in clientTokens : a.exp - a.iat = JwtMaxAge /\ a.iat = now

----------------------------------------------------------------------------
(* handler/auth.rs: register and verify_email; handler/users.rs:           *)
(* update_user_email                                                       *)

\* a verification link is good for 24 hours
VerifyTtl == 86400

\* db/user.rs save_user: a new row, not yet verified, with its token
save_user(u, email, password, token, expires_at) ==
    [db EXCEPT ![u] = [exists |-> TRUE, email |-> email, password |-> password,
                       verified |-> FALSE, vtoken |-> {token},
                       vexp |-> {expires_at}]]

\* db/user.rs update_user_email
update_user_email(user_id, new_email) == [db EXCEPT ![user_id].email = new_email]

\* db/user.rs check_email_duplicate: TRUE when another user has the address
check_email_duplicate(user_id, new_email) ==
    \E u \in Users : db[u].exists /\ db[u].email = new_email /\ u /= user_id

\* register, for a name and an address no row has yet: the row is saved
\* with a fresh token; `sent` tells whether the verification mail went out,
\* which is logged and does not change the answer (lines 82-95)
Register(u, password, sent) ==
    /\ ~db[u].exists
    /\ \A v \in Users : db[v].exists => db[v].email /= EmailOf(u)
    /\ nextUuid <= MaxUuid
    /\ IF PwLen(password) < MinPasswordLen THEN
            /\ last' = Respond("register", 400, "validate")
            /\ UNCHANGED <<db, nextUuid>>
       ELSE IF hash(password) = {} THEN
            /\ last' = Respond("register", 500, "hash")
            /\ UNCHANGED <<db, nextUuid>>
       ELSE /\ nextUuid' = nextUuid + 1
            /\ db' = save_user(u, EmailOf(u), TheOne(hash(password)),
                               VToken(nextUuid', ""), now + VerifyTtl)
            /\ last' = [Respond("register", 201, IF sent THEN "" ELSE "email") EXCEPT
                           !.input = <<VToken(nextUuid', "")>>]
    /\ UNCHANGED <<now, refreshStore, ipAttempts, pairAttempts, reqs, clientTokens,
                   lastSaved, revoked, failLog, ipFailLog>>

\* update_user_email handler, for the user the middleware let in: the token
\* carries the new address and is stored before the mail is sent
UpdateEmail(user_id, new_email, sent) ==
    /\ db[user_id].exists
    /\ nextUuid <= MaxUuid
    /\ IF check_email_duplicate(user_id, new_email) THEN
            /\ last' = Respond("email", 500, "duplicate")
            /\ UNCHANGED <<db, nextUuid>>
       ELSE /\ nextUuid' = nextUuid + 1
            /\ db' = add_verifed_token(user_id, VToken(nextUuid', new_email),
                                       now + VerifyTtl)
            /\ last' = [(IF sent THEN Respond("email", 200, "")
                                  ELSE Respond("email", 500, "email")) EXCEPT
                           !.input = <<VToken(nextUuid', new_email)>>]
    /\ UNCHANGED <<now, refreshStore, ipAttempts, pairAttempts, reqs, clientTokens,
                   lastSaved, revoked, failLog, ipFailLog>>

\* the answer of verify_email to a request made with `token`
VerifyRespond(token, status, stage) ==
    [Respond("verify", status, stage) EXCEPT !.input = <<token>>]

VerifyFailed(token, stage, err) ==
    [VerifyRespond(token, err.status, stage) EXCEPT !.message = err.message]

\* lines 325-353: the row holding the token, and the token's expiry
VerifyStart(p, token) ==
    /\ reqs[p].pc = "idle"
    /\ LET result == get_user({}, {}, {}, {token})
       IN  IF result = {} THEN
                /\ last' = VerifyFailed(token, "lookup", unauthorized("InvalidToken"))
                /\ UNCHANGED reqs
           ELSE IF token_rejected(TheOne(result).token_expires_at) THEN
                /\ last' = VerifyFailed(token, "expired", bad_request("InvalidToken"))
                /\ UNCHANGED reqs
           ELSE /\ reqs' = [reqs EXCEPT ![p] = [Idle EXCEPT
                                !.pc = "vfConsume", !.user = {TheOne(result).id},
                                !.token = {token}]]
                /\ UNCHANGED last
    /\ UNCHANGED <<now, db, refreshStore, ipAttempts, pairAttempts, clientTokens,
                   lastSaved, revoked, failLog, ipFailLog, nextUuid>>

\* lines 355-363 and 375-389: the token is marked used; a first
\* verification then sends the welcome mail, whose failure is only logged
VerifyConsume(p) ==
    /\ reqs[p].pc = "vfConsume"
    /\ db' = verifed_token(TheOne(reqs[p].token))
    /\ IF TheOne(reqs[p].token).email /= ""
       THEN /\ reqs' = [reqs EXCEPT ![p].pc = "vfEmail"]
            /\ UNCHANGED last
       ELSE /\ last' = VerifyRespond(TheOne(reqs[p].token), 200, "")
            /\ reqs' = [reqs EXCEPT ![p] = Idle]
    /\ UNCHANGED <<now, refreshStore, ipAttempts, pairAttempts, clientTokens,
                   lastSaved, revoked, failLog, ipFailLog, nextUuid>>

\* lines 365-374: a token with '+' carries the address the row takes;
\* UPDATE ... RETURNING with fetch_one fails when the row is gone
VerifyEmailUpdate(p) ==
    /\ reqs[p].pc = "vfEmail"
    /\ IF db[TheOne(reqs[p].user)].exists
       THEN /\ db' = update_user_email(TheOne(reqs[p].user), TheOne(reqs[p].token).email)
            /\ last' = VerifyRespond(TheOne(reqs[p].token), 200, "")
       ELSE /\ last' = VerifyFailed(TheOne(reqs[p].token), "email",
                                    server_error("RowNotFound"))
            /\ UNCHANGED db
    /\ reqs' = [reqs EXCEPT ![p] = Idle]
    /\ UNCHANGED <<now, refreshStore, ipAttempts, pairAttempts, clientTokens,
                   lastSaved, revoked, failLog, ipFailLog, nextUuid>>

----------------------------------------------------------------------------
(* The verification specification: u1 is a verified user, u2 has not       *)
(* registered yet; tokens are issued by register and by a change of        *)
(* address, and links are followed, also twice and also after a day.       *)

InitVerify ==
    /\ now = 0
    /\ db = [u \in Users |->
               IF u = "u1" THEN VerifiedRow(EmailOf(u), "secret1") ELSE NoRow]
    /\ refreshStore = [u \in Users |-> {}]
    /\ ipAttempts = [i \in Ips |-> {}]
    /\ pairAttempts = [pr \in Pairs |-> {}]
    /\ reqs = [p \in Procs |-> Idle]
    /\ clientTokens = {}
    /\ lastSaved = [u \in Users |-> {}]
    /\ revoked = [u \in Users |-> {}]
    /\ failLog = [pr \in Pairs |-> EmptyLog]
    /\ ipFailLog = [i \in Ips |-> EmptyLog]
    /\ nextUuid = 0
    /\ last = Respond("none", 200, "")

\* the address a user asks to change to
NewEmailOf(u) == IF u = "u1" THEN "alice@new.io" ELSE "alice@x.io"

\* the links a client can follow: every UUID the server may draw, alone or
\* with an address
VerifyLinks ==
    {VToken(uuid, email) : uuid \in 1..(MaxUuid + 1),
                           email \in {"", "alice@new.io", "alice@x.io"}}

\* one step of the clock: a link's life, so that two steps outlive it
VerifyTick == VerifyTtl
VerifyHorizon == VerifyTtl + VerifyTtl

VerifyNext ==
    \/ \E password \in {"secret2", "short"}, sent \in BOOLEAN :
          Register("u2", password, sent)
    \/ \E u \in Users, sent \in BOOLEAN : UpdateEmail(u, NewEmailOf(u), sent)
    \/ \E p \in Procs, token \in VerifyLinks : VerifyStart(p, token)
    \/ \E p \in Procs : VerifyConsume(p)
    \/ \E p \in Procs : VerifyEmailUpdate(p)
    \/ Advance(VerifyTick, VerifyHorizon)

SpecVerify == InitVerify /\ [][VerifyNext]_vars

\* the rows holding `token`
Holders(token) == {u \in Users : db[u].exists /\ db[u].vtoken = {token}}

\* the tokens the server has issued so far
IssuedLinks == {t \in VerifyLinks : t.uuid <= nextUuid}

\* request p's verify_email returns 200 in this step
VerifyReturns(p) ==
    /\ reqs[p].pc \in {"vfConsume", "vfEmail"}
    /\ reqs'[p].pc = "idle"
    /\ last' = VerifyRespond(TheOne(reqs[p].token), 200, "")

\* C16: an email-verification token is single-use.  When verify_email returns
\* success for a token no row holds the token any more; a token that no row
\* holds is never stored again; and a verify_email started with a token that
\* no row holds fails (401) and changes nothing.
C16_VerifyTokenSingleUse ==
    [][/\ \A p \in Procs, t \in VerifyLinks :
              (reqs[p].token = {t} /\ VerifyReturns(p)) => (Holders(t) = {})'
       /\ \A t \in IssuedLinks : Holders(t) = {} => (Holders(t) = {})'
       /\ \A p \in Procs, t \in IssuedLinks :
              (Holders(t) = {} /\ VerifyStart(p, t))
              => /\ last' = VerifyFailed(t, "lookup", unauthorized("InvalidToken"))
                 /\ UNCHANGED <<db, reqs, now, nextUuid>>]_vars

\* the registered user followed the link and is verified, and following the
\* same link once more was answered 401
C16_Witness ==
    /\ db["u2"].exists /\ db["u2"].verified /\ db["u2"].vtoken = {}
    /\ \E t \in IssuedLinks :
          /\ t.email = ""
          /\ last = VerifyFailed(t, "lookup", unauthorized("InvalidToken"))

----------------------------------------------------------------------------
(* The token specification: create_token and decode_token on their own.    *)
(* Tokens are issued with a life of zero or one second, and decoded at     *)
(* once, a second later and after the verifier's leeway: the clock moves   *)
(* by one second at the start and by the leeway at any time.               *)

\* the lives tokens are issued with
TokenTtls == {0, 1}

\* tokens issued before the specification stops issuing
TokenBudget == Cardinality(Procs)

TokenHorizon == Leeway + Cardinality(TokenTtls)

\* what decode_token is called with
TokenInputs == clientTokens \cup Forged \cup Malformed

\* a call of decode_token and what it returned
DecodeRespond(token) ==
    [op |-> "decode", status |-> IF decode_token(token) /= {} THEN 200 ELSE 401,
     stage |-> decode(token), input |-> <<token>>,
     message |-> IF decode_token(token) /= {} THEN token.sub
                 ELSE TheOne(decode_token_Err(token)).message]

TokenIssue(data, expires_in_seconds) ==
    /\ Cardinality(clientTokens) < TokenBudget
    /\ clientTokens' = clientTokens \cup create_token(data, expires_in_seconds)
    /\ last' = [Respond("create", IF create_token(data, expires_in_seconds) = {}
                                  THEN 500 ELSE 200, "") EXCEPT
                   !.input = <<data, expires_in_seconds>>]
    /\ UNCHANGED <<now, db, refreshStore, ipAttempts, pairAttempts, reqs, lastSaved,
                   revoked, failLog, ipFailLog, nextUuid>>

TokenDecode(token) ==
    /\ last' = DecodeRespond(token)
    /\ UNCHANGED <<now, db, refreshStore, ipAttempts, pairAttempts, reqs,
                   clientTokens, lastSaved, revoked, failLog, ipFailLog, nextUuid>>

TokenNext ==
    \/ \E data \in {"u1", ""}, ttl \in TokenTtls : TokenIssue(data, ttl)
    \/ \E token \in TokenInputs : TokenDecode(token)
    \/ \E d \in {1, Leeway} : (d = 1 => now = 0) /\ Advance(d, TokenHorizon)

SpecToken == Init /\ [][TokenNext]_vars

\* C18: decode_token accepts a token only while now < expires-at; so a token
\* issued with a life of zero seconds is rejected one second later.
C18_StrictExpiry ==
    \A t \in clientTokens : decode_token(t) /= {} => now < t.exp

\* C19: decode_token returns one error, InvalidToken with status 401, for a
\* malformed token, a bad signature and an expired token: the caller of two
\* rejected tokens sees the same result whichever check failed.
C19_OneDecodeError ==
    /\ \A t \in TokenInputs :
           decode_token(t) = {} => decode_token_Err(t) = {HttpError_new("InvalidToken", 401)}
    /\ \A t \in TokenInputs : decode_token(t) /= {} => decode_token_Err(t) = {}
    /\ (last.op = "decode" /\ last.status /= 200)
           => Visible(last) = [status |-> 401, message |-> "InvalidToken"]

\* a token past its expiry and the leeway has just been rejected, while a
\* forged and a malformed token are rejected for other reasons
C19_Witness ==
    /\ last.op = "decode" /\ last.status = 401 /\ last.stage = "ExpiredSignature"
    /\ \E t \in Forged : decode(t) = "InvalidSignature" /\ decode_token(t) = {}
    /\ \E t \in Malformed : decode(t) = "InvalidToken" /\ decode_token(t) = {}
    /\ \E t \in clientTokens : decode_token(t) /= {}

----------------------------------------------------------------------------
(* The credential specification: every operation that writes a token to a  *)
(* user record (register, forgot_password, the change of address) and      *)
(* every operation that reads one (verify_email, reset_password), with     *)
(* mails that go out or fail and a clock that outlives the links.          *)

\* the clock moves past a reset link's life once, at the start, and by a
\* verification link's life at any time
CredentialTick == ResetTtl + 1
CredentialHorizon == VerifyTtl + CredentialTick

\* tokens issued before the specification stops issuing: one per request slot
CredentialTokens == Cardinality(Procs)

\* the links a client follows
CredentialLinks == {t \in VerifyLinks : t.uuid <= CredentialTokens}

CredentialNext ==
    \/ \E sent \in BOOLEAN :
          nextUuid < CredentialTokens /\ Register("u2", "secret2", sent)
    \/ \E sent \in BOOLEAN :
          nextUuid < CredentialTokens /\ UpdateEmail("u1", NewEmailOf("u1"), sent)
    \/ \E identifier \in {"alice", "nobody"}, sent \in BOOLEAN :
          nextUuid < CredentialTokens /\ ForgotPassword(identifier, sent)
    \/ \E p \in Procs, token \in CredentialLinks : VerifyStart(p, token)
    \/ \E p \in Procs : VerifyConsume(p)
    \/ \E p \in Procs : VerifyEmailUpdate(p)
    \/ \E p \in Procs, token \in CredentialLinks, pw \in {"secret2", "short"} :
          ResetStart(p, token, pw)
    \/ \E p \in Procs : ResetUpdate(p)
    \/ \E p \in Procs : ResetConsume(p)
    \/ \E d \in {CredentialTick, VerifyTtl} :
          (d = CredentialTick => now = 0) /\ Advance(d, CredentialHorizon)

SpecCredential == InitVerify /\ [][CredentialNext]_vars

\* C21: a mail that cannot be sent never fails the request that triggered
\* it: register, forgot_password and the change of address answer with
\* their success status when the send failed.
C21_MailFailureNotFatal ==
    (last.op \in {"register", "forgot", "email"} /\ last.stage = "email")
        => last.status \in {200, 201}

----------------------------------------------------------------------------
(* Input validation at login, checked under SpecLoginFail *)

\* the login request in slot p carries input that fails validation
MalformedLogin(p) ==
    /\ reqs[p].pc \in LoginPcs
    /\ ~LoginUserDto_validate(reqs[p].identifier, reqs[p].password)

\* C22: a request with malformed input is rejected without a change of
\* state: no step of a login whose input fails validation changes a
\* rate-limit counter, the session cache or the credential store.
C22_MalformedInputNoEffect ==
    [][\A p \in Procs :
          (MalformedLogin(p) /\ reqs'[p] /= reqs[p])
          => UNCHANGED <<ipAttempts, pairAttempts, refreshStore, db>>]_vars

----------------------------------------------------------------------------
(* Token and expiry of a user record, checked under SpecCredential *)

\* C23: every user record has its verification token and the token's expiry
\* both present or both absent, whatever register, verify_email,
\* forgot_password, reset_password and the change of address have done.
C23_TokenAndExpiryTogether ==
    \A u \in Users :
        db[u].exists => ((db[u].vtoken = {}) <=> (db[u].vexp = {}))

\* the registered user has followed the link, so its record has neither,
\* while the other user has asked for a reset and its record has both
C23_Witness ==
    /\ db["u2"].exists /\ db["u2"].verified
    /\ db["u2"].vtoken = {} /\ db["u2"].vexp = {}
    /\ db["u1"].vtoken /= {} /\ db["u1"].vexp = {now + ResetTtl}
    /\ last.op = "verify" /\ last.status = 200

----------------------------------------------------------------------------
(* Logout, checked under SpecAccess *)

\* C24: logout is idempotent.  A logout that passes the middleware answers
\* 200 and leaves the subject without a session entry, whether or not there
\* was one; when there was none it changes nothing, so a second logout
\* leaves the state the first one left.
C24_LogoutIdempotent ==
    [][\A t \in Presentable :
          (auth(t) /= {} /\ Logout(t))
          => /\ last'.status = 200
             /\ refreshStore'[t.sub] = {}
             /\ refreshStore[t.sub] = {}
                    => UNCHANGED <<refreshStore, db, ipAttempts, pairAttempts, reqs,
                                   clientTokens, now>>]_vars

\* the subject has logged out, and a logout that found no session entry
\* has been answered 200
C24_Witness ==
    /\ last = Respond("logout", 200, "absent")
    /\ "logout" \in revoked["u1"]
    /\ refreshStore["u1"] = {}
    /\ \E t \in clientTokens : t.sub = "u1" /\ auth(t) /= {}

----------------------------------------------------------------------------
(* The access specification: logins early on, logout and password change   *)
(* at any time, and a clock that first stays within an access token's life *)
(* and then leaps past its expiry and the verifier's leeway.               *)

AccessTick == JwtMaxAge - 1
AccessLeap == Leeway + JwtMaxAge
AccessHorizon == AccessTick + AccessLeap

AccessNext ==
    \/ \E p \in Procs, c \in SessionLogins :
          now <= AccessTick /\ LoginStart(p, "ip1", c[1], c[2], SessionFailures)
    \/ \E p \in Procs : LoginCheckPair(p)
    \/ \E p \in Procs : LoginAuthenticate(p)
    \/ \E p \in Procs : LoginSave(p)
    \/ \E p \in Procs : LoginClear(p)
    \/ \E p \in Procs : LoginRecordFailure(p)
    \/ \E t \in Presentable : Logout(t)
    \/ \E p \in Procs, t \in Presentable, old \in SessionPasswords :
          UpdatePasswordStart(p, t, old, "secret2")
    \/ \E p \in Procs : UpdatePasswordRevoke(p)
    \/ \E d \in {AccessTick, AccessLeap} :
          (d = AccessTick => now = 0) /\ Advance(d, AccessHorizon)

SpecAccess == Init /\ [][AccessNext]_vars

\* the access tokens handed to clients
IssuedAccess == {t \in clientTokens : t.exp - t.iat = JwtMaxAge}

\* C25: the middleware accepts an access token whatever the session cache
\* holds: while the subject's record exists, an access token that has not
\* expired is accepted, after a logout, a password change or a newer login
\* as before; a token is refused only once it has expired.
C25_AccessTokenStateless ==
    \A t \in IssuedAccess :
        /\ (db[t.sub].exists /\ now < t.exp) => auth(t) = {Row(t.sub)}
        /\ (db[t.sub].exists /\ auth(t) = {}) => now >= t.exp

\* the subject has logged out and has changed the password, the session
\* entry is gone, and of two access tokens the older has expired and is
\* refused while the newer, not yet expired, is accepted
C25_Witness ==
    /\ {"logout", "password"} \subseteq revoked["u1"]
    /\ refreshStore["u1"] = {}
    /\ \E t \in IssuedAccess : t.sub = "u1" /\ now < t.exp /\ auth(t) = {Row("u1")}
    /\ \E t \in IssuedAccess : t.sub = "u1" /\ auth(t) = {}

----------------------------------------------------------------------------
(* The role specification: an administrator and a plain user log in and    *)
(* call the routes of users_handler that are behind role_check.            *)

\* the role lists of GET /me and GET /users
RouteRoles == {{"admin", "user"}, {"admin"}}

RoleLogins == {<<"alice", "secret1">>, <<"bob", "secret2">>, <<"bob", "wrong12">>}

RoleNext ==
    \/ \E p \in Procs, c \in RoleLogins :
          LoginStart(p, "ip1", c[1], c[2], SessionFailures)
    \/ \E p \in Procs : LoginCheckPair(p)
    \/ \E p \in Procs : LoginAuthenticate(p)
    \/ \E p \in Procs : LoginSave(p)
    \/ \E p \in Procs : LoginClear(p)
    \/ \E p \in Procs : LoginRecordFailure(p)
    \/ \E t \in Presentable, roles \in RouteRoles : Protected(t, roles)

SpecRole == Init /\ [][RoleNext]_vars

\* C26: role_check lets a request through to the handler exactly when the
\* authenticated user's role is one of the route's roles; a user with
\* another role is answered 403 and the handler is not run; 401 is the
\* answer when no authenticated user is attached to the request.
C26_RoleCheck ==
    /\ [](\A roles \in SUBSET UserRole :
             /\ role_check({}, roles).status = 401
             /\ \A u \in Users :
                    db[u].exists =>
                        role_check({Row(u)}, roles).status
                            = IF RoleOf(u) \in roles THEN 200 ELSE 403)
    /\ [][\A t \in Presentable, roles \in RouteRoles :
             (auth(t) /= {} /\ Protected(t, roles))
             => /\ (last'.stage = "handler") <=> (RoleOf(t.sub) \in roles)
                /\ (RoleOf(t.sub) \notin roles) => last'.status = 403]_vars

\* the plain user, logged in, has called the administrators' route and has
\* been answered 403
C26_Witness ==
    \E t \in clientTokens :
        /\ t.sub = "u2"
        /\ RoleOf("u2") = "user"
        /\ auth(t) /= {}
        /\ last = [Respond("route", 403, "role") EXCEPT !.input = <<t, {"admin"}>>]

----------------------------------------------------------------------------
(* Who clears a pair counter, checked under SpecFault *)

\* the login in slot p has found the credential, verified the password,
\* issued both tokens and persisted the refresh token
FullySuccessful(p) ==
    /\ reqs[p].pc = "clear"
    /\ reqs[p].user /= {}
    /\ get_user(reqs[p].user, {}, {}, {}) /= {}
    /\ compare(reqs[p].password, db[TheOne(reqs[p].user)].password) = "match"
    /\ reqs[p].access /= {} /\ reqs[p].refresh /= {}
    /\ get_refresh_token(TheOne(reqs[p].user)) = reqs[p].refresh

\* C27: a pair counter is deleted only by a login that has completed every
\* step: when a counter that exists is gone after a step, the step is the
\* success arm of a login for that pair which found the credential, verified
\* the password, issued both tokens and saved the refresh token; no failed
\* or half-done login clears a counter.
C27_OnlySuccessClears ==
    [][\A pr \in Pairs :
          (pairAttempts[pr] /= {} /\ pairAttempts'[pr] = {})
          => \E p \in Procs :
                /\ FullySuccessful(p)
                /\ <<reqs[p].identifier, reqs[p].ip>> = pr
                /\ reqs'[p].pc = "idle"
                /\ last' = LoginRespond(reqs[p], 200, "")]_vars

\* failures were counted for the pair of alice, and the login that then
\* succeeded has deleted the counter
C27_Witness ==
    /\ \A p \in Procs : reqs[p].pc = "idle"
    /\ last = LoginRespond([ip |-> "ip1", identifier |-> "alice",
                            password |-> "secret1"], 200, "")
    /\ pairAttempts[<<"alice", "ip1">>] = {}
    /\ Count(ipAttempts["ip1"]) > Count(pairAttempts[<<"nobody", "ip1">>])

----------------------------------------------------------------------------
(* Expired links, checked under SpecCredential *)

\* the record holding `token` has an expiry in the past, or none
StaleLink(token) ==
    \E u \in Holders(token) : db[u].vexp = {} \/ now > TheOne(db[u].vexp)

\* C28: verify_email and reset_password refuse a token whose record has an
\* expiry in the past and a token whose record has no expiry; the refusal is
\* a 400 and leaves the record as it is: the token stays, the verified flag
\* and the password are not touched.
C28_StaleLinkRefused ==
    /\ [](/\ token_rejected({})
          /\ \A u \in Users :
                 (db[u].vexp /= {} /\ now > TheOne(db[u].vexp))
                     => token_rejected(db[u].vexp))
    /\ [][\A p \in Procs, t \in CredentialLinks :
             StaleLink(t) =>
                 /\ VerifyStart(p, t)
                        => /\ last' = VerifyFailed(t, "expired", bad_request("InvalidToken"))
                           /\ UNCHANGED <<db, reqs>>
                 /\ \A pw \in {"secret2"} :
                        ResetStart(p, t, pw)
                        => /\ last' = ResetRespond(t, 400, "expired")
                           /\ UNCHANGED <<db, reqs>>]_vars

\* the registered user has followed the link after its life: the request was
\* refused, the record still holds the token and is not verified
C28_Witness ==
    \E t \in CredentialLinks :
        /\ Holders(t) = {"u2"}
        /\ now > TheOne(db["u2"].vexp)
        /\ ~db["u2"].verified
        /\ last = VerifyFailed(t, "expired", bad_request("InvalidToken"))

----------------------------------------------------------------------------
(* The counters' values and TTLs, checked under SpecPair *)

\* C29: every rate-limit counter that exists has a value of at least 1 and
\* carries an expiry; and every recorded failure sets the TTL of its address
\* counter to the full 24 hours and of its pair counter to the full hour.
C29_CountersPositiveWithTtl ==
    /\ [](/\ \A i \in Ips : \A e \in ipAttempts[i] : e.n >= 1 /\ e.exp /= {}
          /\ \A pr \in Pairs : \A e \in pairAttempts[pr] : e.n >= 1 /\ e.exp /= {})
    /\ [][\A p \in Procs :
             (reqs[p].pc = "fail" /\ reqs'[p].pc = "idle")
             => /\ \E e \in ipAttempts'[reqs[p].ip] : e.exp = {now + IpTtl}
                /\ \E e \in pairAttempts'[<<reqs[p].identifier, reqs[p].ip>>] :
                       e.exp = {now + PairTtl}]_vars

\* a pair that failed at time 0 has failed again later: its counter has
\* gone on counting and both TTLs run from the later failure
C29_Witness ==
    /\ now > 0
    /\ 0 \in DOMAIN failLog[<<"alice", "ip1">>]
    /\ now \in DOMAIN failLog[<<"alice", "ip1">>]
    /\ \E e \in pairAttempts[<<"alice", "ip1">>] : e.n >= 2 /\ e.exp = {now + PairTtl}
    /\ \E e \in ipAttempts["ip1"] : e.n >= 2 /\ e.exp = {now + IpTtl}

----------------------------------------------------------------------------
(* db/scheduler.rs: the cleanup job *)

\* the rows the job's DELETE matches: verified = false AND token_expires_at
\* < NOW(); a row without an expiry does not match
CleanupMatches(u) ==
    /\ db[u].exists
    /\ ~db[u].verified
    /\ \E e \in db[u].vexp : e < now

\* faulty variant: every row with an expired token is deleted
Cleanup_AnyExpired ==
    /\ db' = [u \in Users |->
                IF db[u].exists /\ (\E e \in db[u].vexp : e < now)
                THEN NoRow ELSE db[u]]
    /\ last' = [Respond("cleanup", 200, "") EXCEPT
                   !.input = <<{u \in Users : db[u].exists /\ ~db'[u].exists}>>]
    /\ UNCHANGED <<now, refreshStore, ipAttempts, pairAttempts, reqs, clientTokens,
                   lastSaved, revoked, failLog, ipFailLog, nextUuid>>

\* one run of the job, lines 22-62; what it logs is the rows it deleted
Cleanup ==
    /\ db' = [u \in Users |-> IF CleanupMatches(u) THEN NoRow ELSE db[u]]
    /\ last' = [Respond("cleanup", 200, "") EXCEPT
                   !.input = <<{u \in Users : CleanupMatches(u)}>>]
    /\ UNCHANGED <<now, refreshStore, ipAttempts, pairAttempts, reqs, clientTokens,
                   lastSaved, revoked, failLog, ipFailLog, nextUuid>>

----------------------------------------------------------------------------
(* The cleanup specification: a verified user and a user who registers;    *)
(* both come to carry tokens (registration, reset, change of address),     *)
(* links are followed or not, a day passes, and the job runs at any time.  *)

CleanupTick == VerifyTtl + 1

CleanupNext ==
    \/ \E sent \in BOOLEAN :
          nextUuid < CredentialTokens /\ Register("u2", "secret2", sent)
    \/ \E sent \in BOOLEAN :
          nextUuid < CredentialTokens /\ UpdateEmail("u1", NewEmailOf("u1"), sent)
    \/ \E identifier \in {"alice", "bob"}, sent \in BOOLEAN :
          nextUuid < CredentialTokens /\ ForgotPassword(identifier, sent)
    \/ \E p \in Procs, token \in CredentialLinks : VerifyStart(p, token)
    \/ \E p \in Procs : VerifyConsume(p)
    \/ \E p \in Procs : VerifyEmailUpdate(p)
    \/ Cleanup
    \/ Advance(CleanupTick, CleanupTick)

SpecCleanup == InitVerify /\ [][CleanupNext]_vars

\* C30: the cleanup job deletes only records that are unverified and whose
\* token expiry is in the past: whenever a record disappears it was such a
\* record, every verified record is left exactly as it was, whatever token it
\* carries, and the session cache is not touched.
C30_CleanupOnlyStaleUnverified ==
    [][\A u \in Users :
          (db[u].exists /\ ~db'[u].exists)
          => /\ ~db[u].verified
             /\ \E e \in db[u].vexp : e < now
             /\ \A v \in Users : (db[v].exists /\ db[v].verified) => db'[v] = db[v]
             /\ refreshStore' = refreshStore]_vars

\* the job has deleted the user who never followed the link, and has left
\* the verified user, whose record carries a token that expired
C30_Witness ==
    /\ last = [Respond("cleanup", 200, "") EXCEPT !.input = <<{"u2"}>>]
    /\ ~db["u2"].exists
    /\ db["u1"].exists /\ db["u1"].verified
    /\ db["u1"].vtoken /= {}
    /\ \E e \in db["u1"].vexp : e < now

----------------------------------------------------------------------------
(* Concurrent guesses, checked under SpecPair *)

\* C31: the pair cap bounds guessing under concurrency: a pair counter, which
\* counts the failed attempts since it was created, never goes beyond 10,
\* however the counter reads and the increments of concurrent logins
\* interleave.
C31_PairCapBoundsGuesses ==
    \A pr \in Pairs : Count(pairAttempts[pr]) <= PairCap

----------------------------------------------------------------------------
(* A login in flight across a password change, checked under Spec *)

\* a password change of the user is between its store update and its
\* deletion of the session entry
ChangeInFlight(user) ==
    \E q \in Procs : reqs[q].pc = "revoke" /\ reqs[q].user = user

\* C32: once a password change has completed, the session cache holds no
\* entry made by a login that was verified against the old hash: a login
\* that saves its refresh token when no password change of its user is still
\* to delete the entry has a password that matches the stored hash.
C32_NoEntryFromOldPassword ==
    [][\A p \in Procs :
          (reqs[p].pc = "save" /\ reqs'[p].pc = "clear"
              /\ ~ChangeInFlight(reqs[p].user))
          => compare(reqs[p].password, db[TheOne(reqs[p].user)].password) = "match"]_vars

----------------------------------------------------------------------------
(* Concurrent use of one token, checked under SpecReset *)

\* request p marks its token as used in this step, on the way to its success
ConsumesToken(p) ==
    \/ reqs[p].pc = "vfConsume" /\ reqs'[p].pc \in {"idle", "vfEmail"}
    \/ ResetReturns(p)

\* C33: of the requests that present one token at most one succeeds: a
\* request that comes to mark the token as used, on its way to success, still
\* finds the token stored; it is never the second to use it.
C33_OneSuccessPerToken ==
    [][\A p \in Procs, t \in VerifyLinks :
          (reqs[p].token = {t} /\ ConsumesToken(p)) => Holders(t) /= {}]_vars

----------------------------------------------------------------------------
(* Refresh tokens at the middleware, checked under SpecAccess *)

\* C34: a refresh token that is not the one stored for its subject, its
\* entry deleted by a logout or a password change or replaced by a newer
\* login, is refused by the auth middleware.
C34_RevokedRefreshRefused ==
    \A u \in Users : \A t \in IssuedRefresh(u) :
        get_refresh_token(u) /= {t} => auth(t) = {}

----------------------------------------------------------------------------
(* The record specification: one client at one address sends its logins    *)
(* one after the other, each with a wrong password, naming the record by   *)
(* its username or by its email.                                           *)

\* the identifiers that name a record: its username and its email
IdentifiersOf(u) == {id \in Identifiers : id \in {UsernameOf(u), EmailOf(u)}}

RecordNext ==
    \/ \E p \in Procs, id \in IdentifiersOf("u1") :
          /\ \A q \in Procs : reqs[q].pc = "idle"
          /\ LoginStart(p, "ip1", id, "wrong12", PairCap + RateSlack)
    \/ \E p \in Procs : LoginCheckPair(p)
    \/ \E p \in Procs : LoginAuthenticate(p)
    \/ \E p \in Procs : LoginRecordFailure(p)
    \/ Advance(PairTick, PairHorizon)

SpecRecord == Init /\ [][RecordNext]_vars

RECURSIVE RecentRecordFailures(_, _)
\* the failed logins against a record from an address within the last hour,
\* added up over the identifiers that name the record
RecentRecordFailures(identifiers, ip) ==
    IF identifiers = {} THEN 0
    ELSE LET id == TheOne(identifiers)
         IN  RecentPairFailures(id, ip) + RecentRecordFailures(identifiers \ {id}, ip)

\* C35: a record sees at most 10 failed password checks from one address
\* within any hour, by whichever of its identifiers the logins name it.
C35_RecordCapPerHour ==
    \A u \in Users, ip \in Ips :
        RecentRecordFailures(IdentifiersOf(u), ip) <= PairCap

----------------------------------------------------------------------------
(* The window specification: failed logins of one pair, spread over a      *)
(* clock that runs to one and a half times the pair counter's TTL.         *)

WindowHorizon == (RateTicks + 1) * PairTick

WindowNext ==
    \/ \E p \in Procs : LoginStart(p, "ip1", "alice", "wrong12", PairCap + RateSlack)
    \/ \E p \in Procs : LoginCheckPair(p)
    \/ \E p \in Procs : LoginAuthenticate(p)
    \/ \E p \in Procs : LoginRecordFailure(p)
    \/ Advance(PairTick, WindowHorizon)

SpecWindow == Init /\ [][WindowNext]_vars

\* the failures recorded no longer ago than `window` seconds, a failure
\* exactly `window` seconds old included
FailuresWithin(log, window) == LogCountSince(log, now - window - 1)

\* C36: a login is rejected by a cap only when the cap's number of failures
\* lies within the window before it: 100 failures of the address within the
\* last 24 hours at the address check, 10 failures of the pair within the
\* last hour at the pair check.
C36_RejectedOnlyOnRecentFailures ==
    [][/\ \A p \in Procs :
             (reqs[p].pc = "pair" /\ reqs'[p] = Idle /\ last'.stage = "pair")
             => FailuresWithin(failLog[<<reqs[p].identifier, reqs[p].ip>>], PairTtl)
                    >= PairCap
       /\ \A ip \in Ips :
             (last' /= last /\ last'.op = "login" /\ last'.stage = "ip"
                 /\ last'.input[1] = ip)
             => FailuresWithin(ipFailLog[ip], IpTtl) >= IpCap]_vars

----------------------------------------------------------------------------
(* The block specification: an address two failures from its cap, one of   *)
(* its pairs one failure from the pair cap, and a clock that takes half    *)
(* hours through the pair counter's TTL.                                   *)

\* failures the address still has to go to its cap
BlockHeadroom == Cardinality(Procs)

\* the address failed IpCap - BlockHeadroom times at time 0, PairCap - 1 of
\* them under the identifier alice and the others each under another one
InitBlock ==
    /\ now = 0
    /\ db = [u \in Users |->
               VerifiedRow(EmailOf(u), IF u = "u1" THEN "secret1" ELSE "secret2")]
    /\ refreshStore = [u \in Users |-> {}]
    /\ ipAttempts = [i \in Ips |->
                       IF i = "ip1"
                       THEN {[n |-> IpCap - BlockHeadroom, exp |-> {IpTtl}]} ELSE {}]
    /\ pairAttempts = [pr \in Pairs |->
                         IF pr = <<"alice", "ip1">>
                         THEN {[n |-> PairCap - 1, exp |-> {PairTtl}]} ELSE {}]
    /\ reqs = [p \in Procs |-> Idle]
    /\ clientTokens = {}
    /\ lastSaved = [u \in Users |-> {}]
    /\ revoked = [u \in Users |-> {}]
    /\ failLog = [pr \in Pairs |->
                    IF pr = <<"alice", "ip1">> THEN (0 :> (PairCap - 1)) ELSE EmptyLog]
    /\ ipFailLog = [i \in Ips |->
                      IF i = "ip1" THEN (0 :> (IpCap - BlockHeadroom)) ELSE EmptyLog]
    /\ nextUuid = 0
    /\ last = Respond("none", 200, "")

\* what clients type from the address: a wrong password, an identifier that
\* is nobody's, and the right password once a cap is reached
BlockLogins == {<<"alice", "wrong12">>, <<"nobody", "secret1">>}

AtPairCap(ip, identifier) ==
    \E e \in pairAttempts[<<identifier, ip>>] : e.n >= PairCap

BlockNext ==
    \/ \E p \in Procs, c \in BlockLogins :
          LoginStart(p, "ip1", c[1], c[2], IpCap + BlockHeadroom)
    \/ \E p \in Procs :
          /\ AtIpCap("ip1") \/ AtPairCap("ip1", "alice")
          /\ LoginStart(p, "ip1", "alice", "secret1", IpCap + BlockHeadroom)
    \/ \E p \in Procs : LoginCheckPair(p)
    \/ \E p \in Procs : LoginAuthenticate(p)
    \/ \E p \in Procs : LoginSave(p)
    \/ \E p \in Procs : LoginClear(p)
    \/ \E p \in Procs : LoginRecordFailure(p)
    \/ Advance(PairTick, PairHorizon)

SpecBlock == InitBlock /\ [][BlockNext]_vars

\* a step in which a login is turned away by the address cap or the pair cap
RejectedByCap ==
    \/ last' /= last /\ last'.op = "login" /\ last'.stage = "ip"
    \/ \E p \in Procs : reqs[p].pc = "pair" /\ reqs'[p] = Idle

\* C37: a login turned away by the address cap or by the pair cap leaves the
\* session cache as it was: no counter goes up and no TTL starts again.
C37_RejectionLeavesCache ==
    [][RejectedByCap => UNCHANGED <<refreshStore, ipAttempts, pairAttempts>>]_vars

\* half an hour after the pair's 10th failure a login with the right password
\* has been turned away at the pair check, and the pair counter still ends
\* when it did
C37_Witness ==
    /\ now = PairTick
    /\ last = LoginFailed([ip |-> "ip1", identifier |-> "alice",
                           password |-> "secret1"], "pair", server_error("Login failed"))
    /\ pairAttempts[<<"alice", "ip1">>] = {[n |-> PairCap, exp |-> {PairTtl}]}

----------------------------------------------------------------------------
(* The fair block specification: the block specification with a clock that *)
(* keeps running, in half hours through the pair counter's TTL and then by *)
(* a day, over the address counter's TTL.                                  *)

BlockLeapHorizon == PairHorizon + IpTtl

BlockTime ==
    \E d \in {PairTick, IpTtl} :
        (d = PairTick => now < PairHorizon) /\ Advance(d, BlockLeapHorizon)

\* the failing logins come before the day's leap of the clock, the right
\* password while a cap is reached and after the leap
BlockFairNext ==
    \/ \E p \in Procs, c \in BlockLogins :
          /\ now <= PairHorizon
          /\ LoginStart(p, "ip1", c[1], c[2], IpCap + BlockHeadroom)
    \/ \E p \in Procs :
          /\ AtIpCap("ip1") \/ AtPairCap("ip1", "alice") \/ now > PairHorizon
          /\ LoginStart(p, "ip1", "alice", "secret1", IpCap + BlockHeadroom)
    \/ \E p \in Procs : LoginCheckPair(p)
    \/ \E p \in Procs : LoginAuthenticate(p)
    \/ \E p \in Procs : LoginSave(p)
    \/ \E p \in Procs : LoginClear(p)
    \/ \E p \in Procs : LoginRecordFailure(p)
    \/ BlockTime

\* time passes, whatever the clients do
SpecBlockFair == InitBlock /\ [][BlockFairNext]_vars /\ WF_vars(BlockTime)

\* positions of a login that has passed both rate checks
PastChecks == {"auth", "fail", "save", "clear"}

\* the pair is at its cap and none of its logins is past the rate checks
PairBlocked(identifier, ip) ==
    /\ AtPairCap(ip, identifier)
    /\ \A q \in Procs :
          ~(reqs[q].pc \in PastChecks /\ reqs[q].identifier = identifier
               /\ reqs[q].ip = ip)

\* the address is at its cap and none of its logins is past the rate checks
IpBlocked(ip) ==
    /\ AtIpCap(ip)
    /\ \A q \in Procs : ~(reqs[q].pc \in PastChecks /\ reqs[q].ip = ip)

\* the credentials of the request in slot p are those of a record
CorrectCredentials(p) ==
    \E u \in Users :
        /\ db[u].exists
        /\ reqs[p].identifier \in IdentifiersOf(u)
        /\ compare(reqs[p].password, db[u].password) = "match"

\* C38: a block ends.  From a state in which a pair, or an address, is at its
\* cap with no login of it past the rate checks, and from which the clock
\* still has a day to run, the counter comes to be absent; and a login with
\* correct credentials that finds the counters of its address and pair
\* absent passes both checks and the password check and is answered 200.
C38_BlockEnds ==
    /\ \A id \in Identifiers, ip \in Ips :
          (PairBlocked(id, ip) /\ now <= PairHorizon)
              ~> (get_identifier_ip_attempts(ip, id) = {})
    /\ \A ip \in Ips :
          (IpBlocked(ip) /\ now <= PairHorizon) ~> (get_ip_attempts(ip) = {})
    /\ [][\A p \in Procs :
             (/\ CorrectCredentials(p)
              /\ get_ip_attempts(reqs[p].ip) = {}
              /\ get_identifier_ip_attempts(reqs[p].ip, reqs[p].identifier) = {}
              /\ reqs'[p] /= reqs[p])
             => \/ reqs[p].pc = "pair" /\ reqs'[p].pc = "auth"
                \/ reqs[p].pc = "auth" /\ reqs'[p].pc = "save"
                \/ reqs[p].pc = "save" /\ reqs'[p].pc = "clear"
                \/ reqs[p].pc = "clear" /\ last' = LoginRespond(reqs[p], 200, "")]_vars

\* the address and the pair were at their caps, the right password was
\* turned away, and a day later, the counters gone, the same login is
\* answered 200
C38_Witness ==
    /\ LogCountSince(ipFailLog["ip1"], -1) >= IpCap
    /\ get_ip_attempts("ip1") = {}
    /\ get_identifier_ip_attempts("ip1", "alice") = {}
    /\ now >= IpTtl
    /\ last = LoginRespond([ip |-> "ip1", identifier |-> "alice",
                            password |-> "secret1"], 200, "")

----------------------------------------------------------------------------
(* One column for two kinds of token, checked under SpecCredential *)

\* a token of forgot_password.  In the credential specification the user u1
\* is there from the start and is the only one forgot_password is asked
\* for, so the tokens it holds that name no new address are reset tokens;
\* the tokens of u2 come from register, those that name an address from the
\* change of address.
ResetToken(t) == t.email = "" /\ Holders(t) = {"u1"}

\* C39: a stored token is accepted only by the flow it was issued for:
\* verify_email lets no token of forgot_password past its lookup,
\* reset_password lets none but a token of forgot_password past its lookup,
\* and a user's verified flag turns true only in verify_email.
C39_TokenBoundToFlow ==
    [][/\ \A p \in Procs, t \in CredentialLinks :
             /\ (reqs[p].pc = "idle" /\ reqs'[p].pc = "vfConsume"
                     /\ reqs'[p].token = {t})
                => ~ResetToken(t)
             /\ (reqs[p].pc = "idle" /\ reqs'[p].pc = "rsUpdate"
                     /\ reqs'[p].token = {t})
                => ResetToken(t)
       /\ \A u \in Users :
             (db[u].exists /\ ~db[u].verified /\ db'[u].verified)
             => \E p \in Procs : reqs[p].pc = "vfConsume" /\ reqs[p].user = {u}]_vars

----------------------------------------------------------------------------
(* The read-fault specification: the block specification's logins, with    *)
(* reads of the two counters that can come back as errors.                 *)

ReadFaultNext ==
    \/ \E p \in Procs, c \in BlockLogins :
          LoginStart(p, "ip1", c[1], c[2], IpCap + BlockHeadroom)
    \/ \E p \in Procs :
          /\ AtIpCap("ip1") \/ AtPairCap("ip1", "alice")
          /\ LoginStart(p, "ip1", "alice", "secret1", IpCap + BlockHeadroom)
    \/ \E p \in Procs, c \in BlockLogins \cup {<<"alice", "secret1">>} :
          LoginIpReadFails(p, "ip1", c[1], c[2])
    \/ \E p \in Procs : LoginCheckPair(p)
    \/ \E p \in Procs : LoginPairReadFails(p)
    \/ \E p \in Procs : LoginAuthenticate(p)
    \/ \E p \in Procs : LoginSave(p)
    \/ \E p \in Procs : LoginClear(p)
    \/ \E p \in Procs : LoginRecordFailure(p)
    \/ Advance(PairTick, PairHorizon)

SpecReadFault == InitBlock /\ [][ReadFaultNext]_vars

\* the response to a login whose read of a counter failed
ReadFailure(response) ==
    /\ response.op = "login"
    /\ response.stage \in {"ipread", "pairread"}

\* C40: the rate limiter fails closed.  A login whose read of the address
\* counter or of the pair counter fails is answered by a server error, goes
\* no further, and leaves the counters, the session entries, the credential
\* store and the tokens handed out as they were; so a login passes the
\* address check only with the address below its cap, and the pair check
\* only with the pair below its cap.
C40_RateLimiterFailsClosed ==
    [][/\ (/\ ReadFailure(last')
           /\ last' /= last \/ \E p \in Procs : reqs[p].pc = "pair" /\ reqs'[p] = Idle)
            => /\ last'.status = 500
               /\ \A p \in Procs : reqs'[p] = reqs[p] \/ reqs'[p] = Idle
               /\ UNCHANGED <<ipAttempts, pairAttempts, refreshStore, db,
                              clientTokens>>
       /\ \A p \in Procs :
             /\ (reqs[p].pc = "idle" /\ reqs'[p].pc \in LoginPcs)
                   => unwrap_or_0(get_ip_attempts(reqs'[p].ip)) < IpCap
             /\ (reqs[p].pc = "pair" /\ reqs'[p].pc \in PastChecks)
                   => unwrap_or_0(get_identifier_ip_attempts(
                                      reqs[p].ip, reqs[p].identifier)) < PairCap]_vars

\* with the pair at its cap, a login with the right password met a failed
\* read of the pair counter and was answered by the server error; the
\* counter is as the 10th failure left it and no token was handed out
C40_Witness ==
    /\ last = LoginFailed([ip |-> "ip1", identifier |-> "alice",
                           password |-> "secret1"], "pairread",
                          server_error(ErrorMessage_ServerError))
    /\ pairAttempts[<<"alice", "ip1">>] = {[n |-> PairCap, exp |-> {PairTtl}]}
    /\ \A p \in Procs : reqs[p].pc = "idle"
    /\ clientTokens = {}

====
